---- MODULE Spec2Model ----
(***************************************************************************)
(* A model of the Review Guesser session engine: the seeded generator      *)
(* (SeededRNG), the seed / counter store kept in module variables and in   *)
(* localStorage, the guess-set builder (buildGuessSet), and the page       *)
(* lifecycle (run, navigateToRandomApp, maybeAutoSkipNSFWPage, the round   *)
(* widget).                                                                *)
(*                                                                         *)
(* Numbers.  TLC's integers are 32-bit signed, so a JavaScript 32-bit word *)
(* is kept as a pair <<hi, lo>> of 16-bit halves (value hi * 65536 + lo).  *)
(* SeededRNG.state is a JavaScript Number that the code never wraps, so    *)
(* its pair keeps an unreduced hi half.                                    *)
(*                                                                         *)
(* Strings.  A seed token is a sequence of character codes, so that        *)
(* hashString, toUpperCase and split(':') are computed as the code does.   *)
(***************************************************************************)
EXTENDS Integers, Sequences, FiniteSets, TLC

\* null for a mode or another string-valued field; undefined for an omitted argument
Null == "null"

Undefined == "undefined"

\* null for a number-valued field (maxGames, a limit argument)
NullNum == 0 - 1

\* null for a text (a string kept as character codes): getItem of a missing key
NoItem == <<-1>>

\* null for currentRNG
NoRNG == <<>>

W16 == 65536

(***************************************************************************)
(* 32-bit word arithmetic on <<hi, lo>> pairs.                             *)
(***************************************************************************)
RECURSIVE XorBits(_, _, _)
XorBits(a, b, n) ==
    IF n = 0 THEN 0
    ELSE (((a % 2) + (b % 2)) % 2) + 2 * XorBits(a \div 2, b \div 2, n - 1)

RECURSIVE OrBits(_, _, _)
OrBits(a, b, n) ==
    IF n = 0 THEN 0
    ELSE (IF (a % 2) = 1 \/ (b % 2) = 1 THEN 1 ELSE 0)
         + 2 * OrBits(a \div 2, b \div 2, n - 1)

Pow2(k) == CASE k = 1 -> 2 [] k = 2 -> 4 [] k = 7 -> 128 [] k = 9 -> 512
             [] k = 14 -> 16384 [] k = 15 -> 32768 [] OTHER -> 1

\* x is a number kept as <<hi, lo>>
IsWord(x) == x[1] >= 0 /\ x[2] >= 0 /\ x[2] < W16

\* ToUint32 / ToInt32 of a Number kept as <<hi, lo>>: the low 32 bits
ToU32(x) == <<x[1] % W16, x[2]>>

\* the xor of two 4-bit digits, tabulated
Xor4 == [a \in 0..15 |-> [b \in 0..15 |-> XorBits(a, b, 4)]]

\* x ^ y, a byte and a 16-bit half at a time
Xor32(x, y) ==
    LET Xor8(a, b) == (Xor4[a \div 16][b \div 16] * 16) + Xor4[a % 16][b % 16]
        Xor16(a, b) == (Xor8(a \div 256, b \div 256) * 256) + Xor8(a % 256, b % 256)
    IN  <<Xor16(x[1], y[1]), Xor16(x[2], y[2])>>

\* x | c for a small constant c (c < 64)
OrSmall(x, c) == <<x[1], ((x[2] \div 64) * 64) + OrBits(x[2] % 64, c, 6)>>

\* x >>> k, 0 < k < 16
Shr(x, k) ==
    <<x[1] \div Pow2(k),
      (x[2] \div Pow2(k)) + ((x[1] % Pow2(k)) * Pow2(16 - k))>>

\* (x + y) mod 2^32
Add32(x, y) ==
    LET AddCarry(lo) == <<(x[1] + y[1] + (lo \div W16)) % W16, lo % W16>>
    IN  AddCarry(x[2] + y[2])

\* the full 32-bit product of two 16-bit halves a and b, from the partial
\* products p0 = a * (low byte of b) and p1 = a * (high byte of b)
Mul16(a, b) ==
    LET MulCarry(sum, p1) == <<((sum \div W16) + (p1 \div 256)) % W16, sum % W16>>
        MulSum(p0, p1) == MulCarry(p0 + ((p1 % 256) * 256), p1)
    IN  MulSum(a * (b % 256), a * (b \div 256))

\* Math.imul(x, y): the low 32 bits of the product
Imul(x, y) ==
    LET ImulOf(ll, cross) == <<(ll[1] + cross) % W16, ll[2]>>
    IN  ImulOf(Mul16(x[2], y[2]),
               (Mul16(x[1], y[2])[2] + Mul16(x[2], y[1])[2]) % W16)

(***************************************************************************)
(* SeededRNG (Mulberry32).  A generator is its field `state`.              *)
(***************************************************************************)
\* 0x6d2b79f5
Increment == <<27947, 31221>>

\* constructor(seed): this.state = seed >>> 0
NewRNG(seedNumber) == ToU32(seedNumber)

\* this.state += 0x6d2b79f5   (a Number addition: no wrap)
RngAdvance(state) ==
    LET RngCarry(lo) == <<state[1] + Increment[1] + (lo \div W16), lo % W16>>
    IN  RngCarry(state[2] + Increment[2])

\* the 32-bit output word of next(), computed from the advanced state:
\*   Mix1:  t = Math.imul(t ^ (t >>> 15), t | 1)
\*   Mix2:  t ^= t + Math.imul(t ^ (t >>> 7), t | 61)
\*   Mix3:  return ((t ^ (t >>> 14)) >>> 0) / 4294967296
\* (each statement is evaluated once, on the value the one before has left)
Mix(advanced) ==
    LET Mix3(t) == Xor32(t, Shr(t, 14))
        Mix2(t) == Xor32(t, Add32(t, Imul(Xor32(t, Shr(t, 7)), OrSmall(t, 61))))
        Mix1(t) == Imul(Xor32(t, Shr(t, 15)), OrSmall(t, 1))
    IN  CHOOSE u \in {Mix3(t3) : t3 \in {Mix2(t2) : t2 \in {Mix1(t1) :
                        t1 \in {ToU32(advanced)}}}} : TRUE

\* next(): [state |-> the new state, out |-> the word u with result u / 2^32]
RngNext(state) ==
    LET Drawn(advanced) ==
            IF IsWord(advanced) THEN [state |-> advanced, out |-> Mix(advanced)]
            ELSE [state |-> advanced, out |-> advanced]
    IN  Drawn(RngAdvance(state))

\* Math.floor((u / 4294967296) * n) for -32768 < n < 32768 (\div rounds down)
ScaleFloor(u, n) == ((u[1] * n) + ((u[2] * n) \div W16)) \div W16

\* randInt(min, max)
RandInt(state, min, max) ==
    LET ScaledTo(r, n) == [state |-> r.state, val |-> ScaleFloor(r.out, n) + min]
    IN  ScaledTo(RngNext(state), (max - min) + 1)

\* next() < 0.5
RngCoin(state) ==
    LET CoinOf(r) == [state |-> r.state, val |-> r.out[1] < 32768]
    IN  CoinOf(RngNext(state))

\* a variant of the shuffle loop that runs down to index 0
RECURSIVE ShuffleToZero(_, _, _)
ShuffleToZero(array, state, i) ==
    LET SwapAt(j) == [array EXCEPT ![i] = array[j], ![j] = array[i]]
        ShuffleStep(r) ==
            ShuffleToZero(SwapAt(ScaleFloor(r.out, i) + 1), r.state, i - 1)
    IN  IF i < 1 \/ Len(array) < i THEN [state |-> state, val |-> array]
        ELSE ShuffleStep(RngNext(state))

\* shuffle(array): Fisher-Yates from the last index down to index 1;
\* ShuffleStep is one round of the loop with its draw r
RECURSIVE ShuffleFrom(_, _, _)
ShuffleFrom(array, state, i) ==
    LET SwapAt(j) == [array EXCEPT ![i] = array[j], ![j] = array[i]]
        ShuffleStep(r) == ShuffleFrom(SwapAt(ScaleFloor(r.out, i) + 1), r.state, i - 1)
    IN  IF i <= 1 \/ Len(array) < i THEN [state |-> state, val |-> array]
        ELSE ShuffleStep(RngNext(state))

Shuffle(state, array) == ShuffleFrom(array, state, Len(array))

\* pick(array): null for an empty array, else the element at a drawn index
Pick(state, array) ==
    LET PickOf(r) ==
            [state |-> r.state, val |-> array[ScaleFloor(r.out, Len(array)) + 1]]
    IN  IF Len(array) = 0 THEN [state |-> state, val |-> NullNum]
        ELSE PickOf(RngNext(state))

(***************************************************************************)
(* buildGuessSet.  `answers` is a JavaScript Set: a sequence of distinct   *)
(* members in insertion order.  CAP is 200_000_000_000 in the source; the  *)
(* model scales it to a value TLC's integers hold, large enough (above     *)
(* 50 * 5^5) for the downward phase from CAP to have its five steps.       *)
(* The loops carry b = [answers, state, draws, down, up]: the set, the     *)
(* generator, the draws made so far, and what each phase added.            *)
(***************************************************************************)
MIN_ANSWERS == 6

CAP == 200000

Range(seq) == {seq[i] : i \in 1..Len(seq)}

SetAdd(answers, v) == IF v \in Range(answers) THEN answers ELSE Append(answers, v)

SetDelete(answers, v) == SelectSeq(answers, LAMBDA x : x # v)

SetMax(S) == CHOOSE m \in S : \A x \in S : x <= m

SetMin(S) == CHOOSE m \in S : \A x \in S : m <= x

\* Math.max(0, Math.min(CAP, Math.trunc(Number(trueCount) || 0)))
NormaliseTrueCount(trueCount) ==
    IF trueCount < 0 THEN 0 ELSE IF trueCount > CAP THEN CAP ELSE trueCount

\* a variant of the downward loop that goes on below 50
RECURSIVE DownLoopDeep(_, _, _, _)
DownLoopDeep(b, current, downCount, maxDownGuesses) ==
    LET ClampBelow(next) == IF next >= current THEN current - 1 ELSE next
        ClampNext(next) == ClampBelow(IF next < 0 THEN 0 ELSE next)
        DownAdd(state, next) ==
            DownLoopDeep([b EXCEPT !.answers = SetAdd(b.answers, next),
                                   !.state = state,
                                   !.draws = b.draws + 1,
                                   !.down = IF next \in Range(b.answers) THEN b.down
                                            ELSE Append(b.down, next)],
                         next,
                         IF next \in Range(b.answers) THEN downCount
                         ELSE downCount + 1,
                         maxDownGuesses)
        DownDraw(r) == DownAdd(r.state, ClampNext((current \div 5) + r.val))
    IN  IF ~(Len(b.answers) < MIN_ANSWERS /\ downCount < maxDownGuesses) THEN b
        ELSE IF current = 0 THEN b
        ELSE IF (current \div 5) = current THEN b
        ELSE DownDraw(RandInt(b.state, -3, 3))

\* the downward loop.  ClampNext: if (next < 0) next = 0; if (next >= current)
\* next = current - 1.  DownDraw: noise = randInt(-3, 3) has been drawn as r.
\* DownAdd: answers.add(next), downCount++ when the set grew.  DownNext:
\* current = next; if (current < 50) break.
RECURSIVE DownLoop(_, _, _, _)
DownLoop(b, current, downCount, maxDownGuesses) ==
    LET ClampBelow(next) == IF next >= current THEN current - 1 ELSE next
        ClampNext(next) == ClampBelow(IF next < 0 THEN 0 ELSE next)
        DownNext(b1, next, count) ==
            IF next < 50 THEN b1 ELSE DownLoop(b1, next, count, maxDownGuesses)
        DownAdd(state, next) ==
            DownNext([b EXCEPT !.answers = SetAdd(b.answers, next),
                               !.state = state,
                               !.draws = b.draws + 1,
                               !.down = IF next \in Range(b.answers) THEN b.down
                                        ELSE Append(b.down, next)],
                     next,
                     IF next \in Range(b.answers) THEN downCount ELSE downCount + 1)
        DownDraw(r) == DownAdd(r.state, ClampNext((current \div 5) + r.val))
    IN  IF ~(Len(b.answers) < MIN_ANSWERS /\ downCount < maxDownGuesses) THEN b
        ELSE IF current = 0 THEN b
        ELSE IF (current \div 5) = current THEN b
        ELSE DownDraw(RandInt(b.state, -3, 3))

\* while (answers.has(candidate) && candidate < CAP && tries < 10) candidate++
RECURSIVE Probe(_, _, _)
Probe(answers, candidate, tries) ==
    IF candidate \in Range(answers) /\ candidate < CAP /\ tries < 10
    THEN Probe(answers, candidate + 1, tries + 1)
    ELSE candidate

\* a variant of the upward loop without the minimum increase
RECURSIVE UpLoopNoStep(_, _, _)
UpLoopNoStep(b, current, minStep) ==
    LET CapAt(candidate) == IF candidate > CAP THEN CAP ELSE candidate
        Candidate(candidate) == CapAt(IF candidate < 0 THEN 0 ELSE candidate)
        UpAdd(state, candidate) ==
            IF candidate \in Range(b.answers)
            THEN [b EXCEPT !.state = state, !.draws = b.draws + 1]
            ELSE UpLoopNoStep([b EXCEPT !.state = state, !.draws = b.draws + 1,
                                        !.answers = Append(b.answers, candidate),
                                        !.up = Append(b.up, candidate)],
                              candidate, minStep)
        UpDraw(r) ==
            UpAdd(r.state, Probe(b.answers, Candidate((current * 5) + r.val), 0))
    IN  IF ~(Len(b.answers) < MIN_ANSWERS) THEN b
        ELSE UpDraw(RandInt(b.state, -2, 3))

\* a variant of the upward loop that adds the candidate without looking it up
RECURSIVE UpLoopRepeats(_, _, _)
UpLoopRepeats(b, current, minStep) ==
    LET CapAt(candidate) == IF candidate > CAP THEN CAP ELSE candidate
        RaiseTo(candidate, least) == IF candidate < least THEN least ELSE candidate
        Candidate(candidate) ==
            CapAt(RaiseTo(IF candidate < 0 THEN 0 ELSE candidate, current + minStep))
        UpAdd(state, candidate) ==
            UpLoopRepeats([b EXCEPT !.state = state, !.draws = b.draws + 1,
                                    !.answers = Append(b.answers, candidate),
                                    !.up = Append(b.up, candidate)],
                          candidate, minStep)
        UpDraw(r) ==
            UpAdd(r.state, Probe(b.answers, Candidate((current * 5) + r.val), 0))
    IN  IF ~(Len(b.answers) < MIN_ANSWERS) THEN b
        ELSE UpDraw(RandInt(b.state, -2, 3))

\* the upward loop.  Candidate: if (candidate < 0) candidate = 0; the
\* minimum increase over current; if (candidate > CAP) candidate = CAP.
\* UpDraw: noise = randInt(-2, 3) has been drawn as r.  UpAdd:
\* if (answers.has(candidate)) break; answers.add(candidate).
RECURSIVE UpLoop(_, _, _)
UpLoop(b, current, minStep) ==
    LET CapAt(candidate) == IF candidate > CAP THEN CAP ELSE candidate
        RaiseTo(candidate, least) == IF candidate < least THEN least ELSE candidate
        Candidate(candidate) ==
            CapAt(RaiseTo(IF candidate < 0 THEN 0 ELSE candidate, current + minStep))
        UpAdd(state, candidate) ==
            IF candidate \in Range(b.answers)
            THEN [b EXCEPT !.state = state, !.draws = b.draws + 1]
            ELSE UpLoop([b EXCEPT !.state = state, !.draws = b.draws + 1,
                                  !.answers = Append(b.answers, candidate),
                                  !.up = Append(b.up, candidate)],
                        candidate, minStep)
        UpDraw(r) ==
            UpAdd(r.state, Probe(b.answers, Candidate((current * 5) + r.val), 0))
    IN  IF ~(Len(b.answers) < MIN_ANSWERS) THEN b
        ELSE UpDraw(RandInt(b.state, -2, 3))

\* a variant of the fallback loop that goes on past CAP
RECURSIVE FallbackLoopPast(_, _)
FallbackLoopPast(b, maxVal) ==
    IF ~(Len(b.answers) < MIN_ANSWERS) THEN b
    ELSE FallbackLoopPast([b EXCEPT !.answers = SetAdd(b.answers, maxVal + 1)],
                          maxVal + 1)

\* the fallback: fill upwards by +1 from the current maximum
RECURSIVE FallbackLoop(_, _)
FallbackLoop(b, maxVal) ==
    IF ~(Len(b.answers) < MIN_ANSWERS /\ maxVal < CAP) THEN b
    ELSE FallbackLoop([b EXCEPT !.answers = SetAdd(b.answers, maxVal + 1)],
                      maxVal + 1)

\* a variant that adds one guess above the maximum whatever the size
FallbackOneMore(b) ==
    IF SetMax(Range(b.answers)) < CAP
    THEN [b EXCEPT !.answers = SetAdd(b.answers, SetMax(Range(b.answers)) + 1)]
    ELSE b

Fallback(b) ==
    IF Len(b.answers) < MIN_ANSWERS
    THEN FallbackLoop(b, SetMax(Range(b.answers)))
    ELSE b

\* for (const val of candidates): the first candidate that is minVal stops
\* the loop, the first one not in the set replaces minVal
RECURSIVE TweakLoop(_, _, _)
TweakLoop(answers, minVal, candidates) ==
    IF candidates = <<>> THEN answers
    ELSE IF Head(candidates) = minVal THEN answers
    ELSE IF Head(candidates) \notin Range(answers)
         THEN Append(SetDelete(answers, minVal), Head(candidates))
         ELSE TweakLoop(answers, minVal, Tail(candidates))

\* a variant of the tweak without the test minVal !== TC
LowestTweakAny(b, TC) ==
    LET TweakOrder(minVal, f1, f2) ==
            [b EXCEPT !.state = f2.state,
                      !.draws = b.draws + 2,
                      !.untweaked = b.answers,
                      !.flips = <<f1.val, f2.val>>,
                      !.answers = TweakLoop(b.answers, minVal,
                                            IF f2.val THEN <<0, 1>> ELSE <<1, 0>>)]
        TweakFlip(minVal, f1) ==
            IF ~(f1.val /\ minVal < 20)
            THEN [b EXCEPT !.state = f1.state, !.draws = b.draws + 1,
                           !.untweaked = b.answers, !.flips = <<f1.val>>]
            ELSE TweakOrder(minVal, f1, RngCoin(f1.state))
    IN  IF Len(b.answers) = 0 THEN b
        ELSE TweakFlip(SetMin(Range(b.answers)), RngCoin(b.state))

\* a variant of the tweak without the test minVal < 20
LowestTweakHigh(b, TC) ==
    LET TweakOrder(minVal, f1, f2) ==
            [b EXCEPT !.state = f2.state,
                      !.draws = b.draws + 2,
                      !.untweaked = b.answers,
                      !.flips = <<f1.val, f2.val>>,
                      !.answers = TweakLoop(b.answers, minVal,
                                            IF f2.val THEN <<0, 1>> ELSE <<1, 0>>)]
        TweakFlip(minVal, f1) ==
            IF ~f1.val
            THEN [b EXCEPT !.state = f1.state, !.draws = b.draws + 1,
                           !.untweaked = b.answers, !.flips = <<f1.val>>]
            ELSE TweakOrder(minVal, f1, RngCoin(f1.state))
        TweakMin(minVal) ==
            IF minVal = TC THEN [b EXCEPT !.untweaked = b.answers]
            ELSE TweakFlip(minVal, RngCoin(b.state))
    IN  IF Len(b.answers) = 0 THEN b
        ELSE TweakMin(SetMin(Range(b.answers)))

\* the lowest-option tweak.  TweakFlip: minVal !== TC && rng.next() < 0.5 &&
\* minVal < 20, the flip drawn as f1.  TweakOrder: candidates =
\* rng.next() < 0.5 ? [0, 1] : [1, 0], drawn as f2.  untweaked keeps the set
\* the tweak found, flips the outcomes of the rng.next() < 0.5 it evaluated
LowestTweak(b, TC) ==
    LET TweakOrder(minVal, f1, f2) ==
            [b EXCEPT !.state = f2.state,
                      !.draws = b.draws + 2,
                      !.untweaked = b.answers,
                      !.flips = <<f1.val, f2.val>>,
                      !.answers = TweakLoop(b.answers, minVal,
                                            IF f2.val THEN <<0, 1>> ELSE <<1, 0>>)]
        TweakFlip(minVal, f1) ==
            IF ~(f1.val /\ minVal < 20)
            THEN [b EXCEPT !.state = f1.state, !.draws = b.draws + 1,
                           !.untweaked = b.answers, !.flips = <<f1.val>>]
            ELSE TweakOrder(minVal, f1, RngCoin(f1.state))
        TweakMin(minVal) ==
            IF minVal = TC THEN [b EXCEPT !.untweaked = b.answers]
            ELSE TweakFlip(minVal, RngCoin(b.state))
    IN  IF Len(b.answers) = 0 THEN b
        ELSE TweakMin(SetMin(Range(b.answers)))

\* buildGuessSet(trueCount) on the generator `state`:
\* [picks, state, draws, TC, minStep, maxDown, down, up, answers].
\* BuildFrom: MIN_STEP_INCREASE = randInt(40, 60) has been drawn as r1.
\* BuildPhases: maxDownGuesses = randInt(4, 5) has been drawn as r2.
\* BuildStart: answers = {TC} after the two opening draws.  DownPhase is
\* entered only if TC >= MIN_STEP_INCREASE.  BuildResult: rng.shuffle(picks).
BuildGuessSet(trueCount, state) ==
    LET BuildShuffled(TC, minStep, maxDown, b, sh) ==
            [picks |-> sh.val, state |-> sh.state,
             draws |-> b.draws
                       + (IF Len(b.answers) > 1 THEN Len(b.answers) - 1 ELSE 0),
             TC |-> TC, minStep |-> minStep, maxDown |-> maxDown,
             down |-> b.down, up |-> b.up, answers |-> b.answers,
             untweaked |-> b.untweaked, flips |-> b.flips]
        BuildResult(TC, minStep, maxDown, b) ==
            BuildShuffled(TC, minStep, maxDown, b, Shuffle(b.state, b.answers))
        BuildStart(TC, st) ==
            [answers |-> <<TC>>, state |-> st, draws |-> 2,
             down |-> <<>>, up |-> <<>>, untweaked |-> <<>>, flips |-> <<>>]
        DownPhase(TC, minStep, r2) ==
            IF TC >= minStep THEN DownLoop(BuildStart(TC, r2.state), TC, 0, r2.val)
            ELSE BuildStart(TC, r2.state)
        BuildPhases(TC, minStep, r2) ==
            BuildResult(TC, minStep, r2.val,
                        LowestTweak(Fallback(UpLoop(DownPhase(TC, minStep, r2),
                                                    TC, minStep)),
                                    TC))
        BuildFrom(TC, r1) == BuildPhases(TC, r1.val, RandInt(r1.state, 4, 5))
    IN  BuildFrom(NormaliseTrueCount(trueCount), RandInt(state, 40, 60))

(***************************************************************************)
(* Strings as character codes.                                             *)
(***************************************************************************)
Colon == 58

IsDigit(c) == c >= 48 /\ c <= 57

ToUpperCase(str) ==
    LET UpperCode(c) == IF c >= 97 /\ c <= 122 THEN c - 32 ELSE c
    IN  [i \in 1..Len(str) |-> UpperCode(str[i])]

\* the index of the first `code` in str at or after `from`, or Len(str) + 1
RECURSIVE IndexOf(_, _, _)
IndexOf(str, code, from) ==
    IF from > Len(str) THEN Len(str) + 1
    ELSE IF str[from] = code THEN from
    ELSE IndexOf(str, code, from + 1)

\* str.split(':'): the parts, in order; SplitAt gives the part that ends
\* before index k, and the parts after k
RECURSIVE SplitFrom(_, _)
SplitFrom(str, from) ==
    LET SplitAt(k) ==
            IF k > Len(str) THEN <<SubSeq(str, from, k - 1)>>
            ELSE <<SubSeq(str, from, k - 1)>> \o SplitFrom(str, k + 1)
    IN  SplitAt(IndexOf(str, Colon, from))

Split(str) == SplitFrom(str, 1)

\* trim(): spaces dropped at both ends
RECURSIVE TrimLeft(_)
TrimLeft(str) ==
    IF str # <<>> /\ Head(str) = 32 THEN TrimLeft(Tail(str)) ELSE str

RECURSIVE TrimRight(_)
TrimRight(str) ==
    IF str # <<>> /\ str[Len(str)] = 32
    THEN TrimRight(SubSeq(str, 1, Len(str) - 1)) ELSE str

Trim(str) == TrimRight(TrimLeft(str))

\* the value of the leading digits of str, from accumulator acc
RECURSIVE DigitsValue(_, _)
DigitsValue(str, acc) ==
    IF str = <<>> \/ ~IsDigit(Head(str)) THEN acc
    ELSE DigitsValue(Tail(str), (acc * 10) + (Head(str) - 48))

\* parseInt(str, 10): [finite, val]; an optional sign, then the leading
\* digits; NaN (finite FALSE) when there is no digit
ParseInt(str) ==
    LET ParseDigits(neg, body) ==
            IF body = <<>> \/ ~IsDigit(Head(body))
            THEN [finite |-> FALSE, val |-> 0]
            ELSE [finite |-> TRUE,
                  val |-> (IF neg THEN 0 - 1 ELSE 1) * DigitsValue(body, 0)]
        ParseSigned(t) ==
            ParseDigits(t # <<>> /\ Head(t) = 45,
                        IF t # <<>> /\ Head(t) \in {43, 45} THEN Tail(t) ELSE t)
    IN  ParseSigned(TrimLeft(str))

\* String(n) for an integer n >= 0
RECURSIVE DecStr(_)
DecStr(n) ==
    IF n < 10 THEN <<48 + n>> ELSE Append(DecStr(n \div 10), 48 + (n % 10))

\* "UNLIMITED"
UNLIMITED == <<85, 78, 76, 73, 77, 73, 84, 69, 68>>

\* a stored text that an `if (str)` / `str !== ''` test lets through
Truthy(str) == str # NoItem /\ str # <<>>

(***************************************************************************)
(* The seed module: hashString, parseSeedWithLimit, and the operations on  *)
(* its variables.  A store S is [mem, ls]: the module variables and the    *)
(* localStorage keys reviewguesser:<field>.                                *)
(*   ls.left       the writes localStorage still takes before its calls    *)
(*                 throw (NullNum: it never throws)                        *)
(*   mem.raised    an exception is propagating (the statements up to the   *)
(*                 next catch are skipped)                                 *)
(*   mem.notified  the events dispatched and not yet delivered             *)
(***************************************************************************)
\* hash = (hash << 5) - hash + char, kept to 32 bits: hash * 31 + char
RECURSIVE HashFrom(_, _)
HashFrom(str, hash) ==
    IF str = <<>> \/ ~IsWord(hash) THEN hash
    ELSE HashFrom(Tail(str), Add32(Imul(hash, <<0, 31>>), <<0, Head(str)>>))

hashString(str) == HashFrom(str, <<0, 0>>)

\* a variant that keeps the seed as it was typed
parseSeedKeepCase(seedString) ==
    LET PositiveOrNull(parsed) ==
            IF parsed.finite /\ parsed.val > 0 THEN parsed.val ELSE NullNum
        ParsedLimit(limitStr) ==
            IF limitStr = UNLIMITED \/ limitStr = <<>> THEN NullNum
            ELSE PositiveOrNull(ParseInt(limitStr))
        ParsedParts(parts) ==
            [seed |-> parts[1],
             maxGames |-> IF Len(parts) > 1
                          THEN ParsedLimit(ToUpperCase(Trim(parts[2])))
                          ELSE NullNum]
    IN  ParsedParts(Split(seedString))

\* parseSeedWithLimit.  ParsedLimit: limitStr = parts[1].trim().toUpperCase();
\* PositiveOrNull: if (Number.isFinite(parsed) && parsed > 0) max = parsed
parseSeedWithLimit(seedString) ==
    LET PositiveOrNull(parsed) ==
            IF parsed.finite /\ parsed.val > 0 THEN parsed.val ELSE NullNum
        ParsedLimit(limitStr) ==
            IF limitStr = UNLIMITED \/ limitStr = <<>> THEN NullNum
            ELSE PositiveOrNull(ParseInt(limitStr))
        ParsedParts(parts) ==
            [seed |-> ToUpperCase(parts[1]),
             maxGames |-> IF Len(parts) > 1
                          THEN ParsedLimit(ToUpperCase(Trim(parts[2])))
                          ELSE NullNum]
    IN  ParsedParts(Split(seedString))

InitialMem ==
    [currentSeed |-> NoItem, currentRNG |-> NoRNG, gameCounter |-> 0,
     correctCounter |-> 0, maxGames |-> NullNum, gameMode |-> Null,
     nsfwFilterEnabled |-> FALSE, raised |-> FALSE, notified |-> <<>>]

EmptyStorage ==
    [seed |-> NoItem, maxgames |-> NoItem, gamecount |-> NoItem,
     correctcount |-> NoItem, gamemode |-> NoItem, navcount |-> NoItem,
     nsfwfilter |-> NoItem, left |-> NullNum]

\* localStorage.setItem('reviewguesser:' + key, value)
setItem(S, key, value) ==
    IF S.mem.raised THEN S
    ELSE IF S.ls.left = 0 THEN [S EXCEPT !.mem.raised = TRUE]
    ELSE [S EXCEPT !.ls = [@ EXCEPT ![key] = value,
                                    !.left = IF @ = NullNum THEN @ ELSE @ - 1]]

\* what localStorage.getItem returns for each key inside a try block whose
\* catch leaves the defaults: nothing when the storage throws
getItems(ls) ==
    IF ls.left = 0 THEN [k \in DOMAIN ls |-> IF k = "left" THEN 0 ELSE NoItem]
    ELSE ls

\* a variant that lets the exception through
catchNothing(S) == S

\* catch (e) { console.warn(...) }
catch(S) == [S EXCEPT !.mem.raised = FALSE]

\* window.dispatchEvent(new CustomEvent('ext:' + name))
dispatchEvent(S, name) ==
    IF S.mem.raised THEN S
    ELSE [S EXCEPT !.mem.notified = Append(@, name)]

\* a mode as it is stored: '' for null, else String(mode)
ModeStr(mode) ==
    CASE mode = "pure" -> <<112, 117, 114, 101>>
      [] mode = "smart" -> <<115, 109, 97, 114, 116>>
      [] OTHER -> <<>>

\* a stored mode as it is read back
StrMode(str) ==
    CASE str = <<112, 117, 114, 101>> -> "pure"
      [] str = <<115, 109, 97, 114, 116>> -> "smart"
      [] OTHER -> Null

LimitStr(limit) == IF limit = NullNum THEN <<>> ELSE DecStr(limit)

\* a variant that leaves the stored navcount as it is
setSeedKeepNav(S, seed, limit, mode) ==
    LET Stored(T, seedString, gameLimit) ==
            setItem(setItem(setItem(setItem(setItem(T,
                "seed", seedString),
                "maxgames", LimitStr(gameLimit)),
                "gamecount", DecStr(0)),
                "correctcount", DecStr(0)),
                "gamemode", ModeStr(T.mem.gameMode))
        StoreSeed(seedString, gameLimit, newMode) ==
            dispatchEvent(
                catch(Stored([S EXCEPT
                                !.mem = [@ EXCEPT
                                   !.currentSeed = seedString,
                                   !.currentRNG = NewRNG(hashString(seedString)),
                                   !.maxGames = gameLimit,
                                   !.gameCounter = 0,
                                   !.correctCounter = 0,
                                   !.gameMode = newMode]],
                             seedString, gameLimit)),
                "seedchanged")
        SeedParsed(parsed) ==
            StoreSeed(parsed.seed,
                      IF limit = NullNum THEN parsed.maxGames ELSE limit,
                      IF mode # Undefined THEN mode ELSE S.mem.gameMode)
    IN  SeedParsed(parseSeedWithLimit(seed))

\* setSeed(seed, limit, mode) for a string seed.  StoreSeed: the
\* assignments; Stored: the try block's writes
setSeed(S, seed, limit, mode) ==
    LET Stored(T, seedString, gameLimit) ==
            setItem(setItem(setItem(setItem(setItem(setItem(T,
                "seed", seedString),
                "maxgames", LimitStr(gameLimit)),
                "gamecount", DecStr(0)),
                "correctcount", DecStr(0)),
                "gamemode", ModeStr(T.mem.gameMode)),
                "navcount", DecStr(0))
        StoreSeed(seedString, gameLimit, newMode) ==
            dispatchEvent(
                catch(Stored([S EXCEPT
                                !.mem = [@ EXCEPT
                                   !.currentSeed = seedString,
                                   !.currentRNG = NewRNG(hashString(seedString)),
                                   !.maxGames = gameLimit,
                                   !.gameCounter = 0,
                                   !.correctCounter = 0,
                                   !.gameMode = newMode]],
                             seedString, gameLimit)),
                "seedchanged")
        SeedParsed(parsed) ==
            StoreSeed(parsed.seed,
                      IF limit = NullNum THEN parsed.maxGames ELSE limit,
                      IF mode # Undefined THEN mode ELSE S.mem.gameMode)
    IN  SeedParsed(parseSeedWithLimit(seed))

\* the string setSeed returns: the seed and limit it has just assigned
CanonicalSeed(mem) ==
    IF mem.maxGames = NullNum THEN mem.currentSeed
    ELSE mem.currentSeed \o <<Colon>> \o DecStr(mem.maxGames)

\* a variant of the restore loop that draws once
FastForwardOnce(state, n) == IF n <= 0 THEN state ELSE RngNext(state).state

\* for (let i = 0; i < n; i++) currentRNG.next()
\* (the n calls in order, evaluated as two runs of n/2 and n - n/2 calls)
\* FastForwardOn: the second run, from the state the first has reached
RECURSIVE FastForward(_, _)
FastForward(state, n) ==
    LET FastForwardOn(reached, m) ==
            IF reached[2] >= 0 THEN FastForward(reached, m) ELSE reached
    IN  IF n <= 0 THEN state
        ELSE IF n = 1 THEN RngNext(state).state
        ELSE FastForwardOn(FastForward(state, n \div 2), n - (n \div 2))

\* draws discarded per counted navigation on restore
RestoreStride == 10

\* parseInt(str, 10) || 0
ParseIntOrZero(str) ==
    LET OrZero(parsed) == IF parsed.finite THEN parsed.val ELSE 0
    IN  OrZero(ParseInt(str))

\* the nsfw flag as getRNG loads it
LoadedFilterFlag(mem, ls) ==
    IF ls.nsfwfilter = <<49>> THEN TRUE
    ELSE IF ls.nsfwfilter = <<48>> THEN FALSE
    ELSE mem.nsfwFilterEnabled

\* the saved values getRNG reads from localStorage
SavedMaxGames(ls) ==
    IF Truthy(ls.maxgames) THEN ParseInt(ls.maxgames).val ELSE NullNum

SavedGameCount(ls) ==
    IF Truthy(ls.gamecount) THEN ParseIntOrZero(ls.gamecount) ELSE 0

SavedGameMode(ls) == IF Truthy(ls.gamemode) THEN StrMode(ls.gamemode) ELSE Null

SavedCorrectCount(ls) ==
    IF Truthy(ls.correctcount) THEN ParseIntOrZero(ls.correctcount) ELSE 0

\* a variant that never finds a stored navcount
SavedNavCountLost(ls) == NullNum

SavedNavCount(ls) ==
    LET NonNegativeOrNull(parsed) ==
            IF parsed.finite /\ parsed.val >= 0 THEN parsed.val ELSE NullNum
    IN  IF Truthy(ls.navcount) THEN NonNegativeOrNull(ParseInt(ls.navcount))
        ELSE NullNum

\* a variant that restores by the play count
RestoreByPlays(savedNavCount, savedGameCount) == savedGameCount

\* restoreCount = savedNavCount ?? savedGameCount
RestoreCount(savedNavCount, savedGameCount) ==
    IF savedNavCount # NullNum THEN savedNavCount ELSE savedGameCount

\* a variant that loads the seed on every call
getRNGAgain(S, urlSeed, randomSeed) ==
    LET RestoreSaved(T, saved) ==
            [T EXCEPT
               !.mem = [@ EXCEPT
                  !.currentSeed = saved.seed,
                  !.currentRNG =
                     FastForward(NewRNG(hashString(saved.seed)),
                                 RestoreCount(SavedNavCount(saved),
                                              SavedGameCount(saved))
                                    * RestoreStride),
                  !.maxGames = SavedMaxGames(saved),
                  !.gameCounter = SavedGameCount(saved),
                  !.correctCounter = SavedCorrectCount(saved),
                  !.gameMode = SavedGameMode(saved)]]
        LoadSeed(T, saved) ==
            IF Truthy(urlSeed) THEN setSeed(T, urlSeed, NullNum, Undefined)
            ELSE IF Truthy(saved.seed) THEN RestoreSaved(T, saved)
            ELSE setSeed(T, randomSeed, NullNum, Undefined)
    IN  LoadSeed([S EXCEPT
                    !.mem.nsfwFilterEnabled =
                       LoadedFilterFlag(S.mem, getItems(S.ls))],
                 getItems(S.ls))

\* getRNG(): urlSeed is the page URL's seed parameter (NoItem when absent),
\* randomSeed the string generateRandomSeedString() would return.
\* RestoreSaved is the restore branch from the items `saved` the try block
\* has read, LoadSeed the choice of branch
getRNG(S, urlSeed, randomSeed) ==
    LET RestoreSaved(T, saved) ==
            [T EXCEPT
               !.mem = [@ EXCEPT
                  !.currentSeed = saved.seed,
                  !.currentRNG =
                     FastForward(NewRNG(hashString(saved.seed)),
                                 RestoreCount(SavedNavCount(saved),
                                              SavedGameCount(saved))
                                    * RestoreStride),
                  !.maxGames = SavedMaxGames(saved),
                  !.gameCounter = SavedGameCount(saved),
                  !.correctCounter = SavedCorrectCount(saved),
                  !.gameMode = SavedGameMode(saved)]]
        LoadSeed(T, saved) ==
            IF Truthy(urlSeed) THEN setSeed(T, urlSeed, NullNum, Undefined)
            ELSE IF Truthy(saved.seed) THEN RestoreSaved(T, saved)
            ELSE setSeed(T, randomSeed, NullNum, Undefined)
    IN  IF S.mem.currentRNG # NoRNG THEN S
        ELSE LoadSeed([S EXCEPT
                         !.mem.nsfwFilterEnabled =
                            LoadedFilterFlag(S.mem, getItems(S.ls))],
                      getItems(S.ls))

\* the navcount incrementGameCounter reads back before adding one
StoredNavCount(ls) ==
    IF SavedNavCount(ls) = NullNum THEN 0 ELSE SavedNavCount(ls)

\* a variant that counts the play and leaves the stored navcount alone
incrementPlayOnly(S) ==
    dispatchEvent(
        catch(setItem([S EXCEPT !.mem.gameCounter = @ + 1],
                      "gamecount", DecStr(S.mem.gameCounter + 1))),
        "gamecountchanged")

\* navWritten: the navcount is read back and written, one higher
incrementGameCounter(S) ==
    LET navWritten(T) ==
            setItem(T, "navcount", DecStr(StoredNavCount(getItems(T.ls)) + 1))
    IN  dispatchEvent(
            catch(navWritten(setItem([S EXCEPT !.mem.gameCounter = @ + 1],
                                     "gamecount", DecStr(S.mem.gameCounter + 1)))),
            "gamecountchanged")

incrementCorrectCounter(S) ==
    dispatchEvent(
        catch(setItem([S EXCEPT !.mem.correctCounter = @ + 1],
                      "correctcount", DecStr(S.mem.correctCounter + 1))),
        "scorechanged")

\* a variant that takes the play back in memory only
decrementUnsaved(S) ==
    IF S.mem.gameCounter <= 0 THEN S
    ELSE dispatchEvent([S EXCEPT !.mem.gameCounter = @ - 1],
                       "gamecountchanged")

decrementGameCounter(S) ==
    IF S.mem.gameCounter <= 0 THEN S
    ELSE dispatchEvent(
             catch(setItem([S EXCEPT !.mem.gameCounter = @ - 1],
                           "gamecount", DecStr(S.mem.gameCounter - 1))),
             "gamecountchanged")

\* a variant that lets the play at the limit through: > for >=
limitExceeded(mem) ==
    IF mem.maxGames = NullNum THEN FALSE ELSE mem.gameCounter > mem.maxGames

isGameLimitReached(mem) ==
    IF mem.maxGames = NullNum THEN FALSE ELSE mem.gameCounter >= mem.maxGames

\* a variant that resets the stored navigation count too
resetWithNav(S) ==
    dispatchEvent(
        dispatchEvent(
            catch(setItem(setItem(setItem([S EXCEPT !.mem = [@ EXCEPT
                                                      !.gameCounter = 0,
                                                      !.correctCounter = 0]],
                                  "gamecount", DecStr(0)),
                          "correctcount", DecStr(0)),
                          "navcount", DecStr(0))),
            "gamecountchanged"),
        "scorechanged")

resetGameCounter(S) ==
    dispatchEvent(
        dispatchEvent(
            catch(setItem(setItem([S EXCEPT !.mem = [@ EXCEPT
                                                      !.gameCounter = 0,
                                                      !.correctCounter = 0]],
                                  "gamecount", DecStr(0)),
                          "correctcount", DecStr(0))),
            "gamecountchanged"),
        "scorechanged")

setMaxGames(S, limit) ==
    dispatchEvent(
        catch(setItem([S EXCEPT !.mem.maxGames = limit],
                      "maxgames", LimitStr(limit))),
        "seedchanged")

setGameMode(S, mode) ==
    dispatchEvent(
        catch(setItem([S EXCEPT !.mem.gameMode = mode],
                      "gamemode", ModeStr(mode))),
        "seedchanged")

setNSFWFilterEnabled(S, enabled) ==
    dispatchEvent(
        catch(setItem([S EXCEPT !.mem.nsfwFilterEnabled = enabled],
                      "nsfwfilter", IF enabled THEN <<49>> ELSE <<48>>)),
        "nsfwfilterchanged")

(***************************************************************************)
(* External inputs, bounded.                                               *)
(***************************************************************************)
\* the app page the browser first opens
StartApp == 570

\* data/released_appids.csv
ReleasedIds == <<11, 12, 13>>

\* BATCH_FILES: data/Batch_1.csv .. data/Batch_6.csv
BATCH_FILES == <<1, 2, 3, 4, 5, 6>>

\* the ids of one batch file
BatchIds(file) == IF file % 2 = 1 THEN <<11, 12>> ELSE <<12, 13>>

\* the fallback target (Dota 2)
FallbackApp == 570

\* apps whose store tags (fetchAppTags) hold a banned tag
ApiBannedApps == {13}

\* apps whose visible tag cloud holds a banned tag
PageBannedApps == {12, 13}

\* the review count each app page displays
TrueCountOf(appid) ==
    CASE appid = 11 -> 0 [] appid = 12 -> 45 [] appid = 13 -> 7036
      [] OTHER -> CAP

\* "cd:1": the seed token a shared link may carry (seed CD, limit 1)
UrlTokens == {<<99, 100, 58, 49>>}

\* "AB": the seed token the user types before Apply
SeedTokens == {<<65, 66>>}

\* a string generateRandomSeedString() may return
RandomSeeds == {<<81, 55, 75, 50, 77, 57, 88, 52>>}

\* the limits the model offers to setMaxGames and the Apply action
LimitChoices == {NullNum, 1}

\* the configured round timer, in seconds (-1: no timer)
TimerSeconds == 1

\* navigations counted per seed
MaxNav == 2

\* navigateToRandomApp calls in flight at once
MaxNavTasks == 1

\* injectSteamGuessingGame invocations suspended at once
MaxInject == 1

\* consecutive auto-retries the model follows
MaxRetries == 2

\* the marker's chain counter the model follows
MaxChain == 3

\* calls of mark() per widget that the model tells apart
MaxMarks == 2

(***************************************************************************)
(* The page: a world w is [mem, ls, ss, page, wrap, navs, obs].            *)
(*   ss    sessionStorage's reviewguesser:lastNavFromExtension marker      *)
(*         (its mode field is written, and read by debug logging only)     *)
(*   page  the page context: its app id and URL seed, the flags the        *)
(*         scripts keep on it, and a navigation that has been requested    *)
(*   wrap  the round widget (.ext-steam-guess) and its dataset             *)
(*   navs  the navigateToRandomApp calls in flight, each at an await       *)
(*   obs   what the last operation showed (not program state)              *)
(***************************************************************************)
NoMarker ==
    [present |-> FALSE, appid |-> 0, mode |-> Null, chain |-> 0,
     old |-> FALSE]

NoWrap ==
    [state |-> "none", content |-> "none", truecount |-> NullNum,
     locked |-> FALSE, guesses |-> <<>>, timer |-> "off", timeLeft |-> 0,
     waiting |-> 0, scored |-> 0, firstPick |-> NullNum, marks |-> 0]

NewPage(appid, urlSeed) ==
    [appid |-> appid, urlSeed |-> urlSeed, seedInitialized |-> FALSE,
     lastAutoSkippedAppId |-> 0, pending |-> "none", target |-> 0]

\* alert: the last operation showed alert(); retries: the auto-retries since
\* the last click on Next; voidedChain, voidNav: the marker's chain and the
\* stored navcount when the last page was voided; byRetry: the navigation
\* last requested came from an auto-retry
NoObs ==
    [alert |-> FALSE, retries |-> 0, voidedChain |-> 0, voidNav |-> 0,
     byRetry |-> FALSE]

StoreOf(w) == [mem |-> w.mem, ls |-> w.ls]

\* the page goes on with the store S: the events S holds are delivered to
\* their listeners, which redraw the counters
WithStore(w, S) ==
    [w EXCEPT !.mem = [S.mem EXCEPT !.notified = <<>>], !.ls = S.ls]

\* initializeSeedFromURL(), run once per page (window.__extSeedInitialized)
initializeSeedFromURL(w) ==
    IF Truthy(w.page.urlSeed)
    THEN WithStore(w, setSeed(StoreOf(w), w.page.urlSeed, NullNum, Undefined))
    ELSE w

\* the part of injectSteamGuessingGame() before its await
injectStart(w) ==
    IF w.wrap.state = "ready" THEN w
    ELSE IF w.wrap.waiting >= MaxInject THEN w
    ELSE [w EXCEPT !.wrap.waiting = @ + 1,
                   !.wrap.content = IF w.wrap.content = "error" THEN "error"
                                    ELSE "wait",
                   !.wrap.state = IF @ = "none" THEN "loading" ELSE @]

\* a variant that fills the widget whenever a count has arrived
injectResumeRefills(w, got, timerDuration) ==
    LET widgetBuilt(timed, r) ==
            [w EXCEPT !.mem.currentRNG = r.state,
                      !.wrap = [@ EXCEPT
                         !.waiting = @ - 1,
                         !.truecount = got,
                         !.guesses = r.picks,
                         !.content = "buttons",
                         !.timer = IF timed THEN "running" ELSE "off",
                         !.timeLeft = IF timed THEN timerDuration ELSE 0,
                         !.state = "ready"]]
    IN  IF got = NullNum
        THEN [w EXCEPT !.wrap.waiting = @ - 1, !.wrap.content = "error"]
        ELSE widgetBuilt(timerDuration > 0 /\ w.mem.gameCounter > 0,
                         BuildGuessSet(got, w.mem.currentRNG))

\* the part of injectSteamGuessingGame() after  await waitForAnyReviewCount:
\* got is the count read from the page, or NullNum when none was found
\* widgetBuilt: the widget is filled with the guesses r = buildGuessSet(
\* trueCount), and the timer when one is configured and a round was counted
injectResume(w, got, timerDuration) ==
    LET widgetBuilt(timed, r) ==
            [w EXCEPT !.mem.currentRNG = r.state,
                      !.wrap = [@ EXCEPT
                         !.waiting = @ - 1,
                         !.truecount = got,
                         !.guesses = r.picks,
                         !.content = "buttons",
                         !.timer = IF timed THEN "running" ELSE "off",
                         !.timeLeft = IF timed THEN timerDuration ELSE 0,
                         !.state = "ready"]]
    IN  IF got = NullNum
        THEN [w EXCEPT !.wrap.waiting = @ - 1, !.wrap.content = "error"]
        ELSE IF w.wrap.state = "ready"
        THEN [w EXCEPT !.wrap.waiting = @ - 1, !.wrap.truecount = got]
        ELSE widgetBuilt(timerDuration > 0 /\ w.mem.gameCounter > 0,
                         BuildGuessSet(got, w.mem.currentRNG))

\* a variant of mark(picked) without the test of the lock
markAlways(w, picked) ==
    LET markLocked(w1) ==
            IF picked = w1.wrap.truecount
            THEN [WithStore(w1, incrementCorrectCounter(StoreOf(w1)))
                    EXCEPT !.wrap.scored = @ + 1]
            ELSE w1
    IN  markLocked([w EXCEPT
                      !.wrap.locked = TRUE,
                      !.wrap.timer = IF @ = "running" THEN "off" ELSE @,
                      !.wrap.firstPick = IF w.wrap.locked THEN @ ELSE picked,
                      !.wrap.marks = IF @ < MaxMarks THEN @ + 1 ELSE @])

\* a variant of mark(picked) that leaves the interval running
markKeepsTimer(w, picked) ==
    LET markLocked(w1) ==
            IF picked = w1.wrap.truecount
            THEN [WithStore(w1, incrementCorrectCounter(StoreOf(w1)))
                    EXCEPT !.wrap.scored = @ + 1]
            ELSE w1
    IN  IF w.wrap.locked
        THEN [w EXCEPT !.wrap.marks = IF @ < MaxMarks THEN @ + 1 ELSE @]
        ELSE markLocked([w EXCEPT
                           !.wrap.locked = TRUE,
                           !.wrap.firstPick = picked,
                           !.wrap.marks = IF @ < MaxMarks THEN @ + 1 ELSE @])

\* mark(picked), the click listener of a guess button; markLocked is the
\* body after the lock is set.  The widget's ghost fields: marks counts the
\* calls, scored the calls of incrementCorrectCounter, firstPick is the
\* pick of the call that set the lock
mark(w, picked) ==
    LET markLocked(w1) ==
            IF picked = w1.wrap.truecount
            THEN [WithStore(w1, incrementCorrectCounter(StoreOf(w1)))
                    EXCEPT !.wrap.scored = @ + 1]
            ELSE w1
    IN  IF w.wrap.locked
        THEN [w EXCEPT !.wrap.marks = IF @ < MaxMarks THEN @ + 1 ELSE @]
        ELSE markLocked([w EXCEPT
                           !.wrap.locked = TRUE,
                           !.wrap.timer = IF @ = "running" THEN "off" ELSE @,
                           !.wrap.firstPick = picked,
                           !.wrap.marks = IF @ < MaxMarks THEN @ + 1 ELSE @])

NewTask(mode, useFilter, auto) ==
    [pc |-> "timeout", mode |-> mode, useFilter |-> useFilter, i |-> 0,
     file |-> 0, candidate |-> 0, auto |-> auto]

RemoveAt(seq, k) == SubSeq(seq, 1, k - 1) \o SubSeq(seq, k + 1, Len(seq))

\* the picker is called: getSmartRandomAppId draws its batch file before it
\* awaits the file, getPureRandomAppId awaits the released list at once
pickerStart(w, k) ==
    LET filePicked(f) ==
            [w EXCEPT !.mem.currentRNG = f.state,
                      !.navs[k].pc = "csv", !.navs[k].file = f.val]
    IN  IF w.navs[k].mode = "smart"
        THEN filePicked(Pick(w.mem.currentRNG, BATCH_FILES))
        ELSE [w EXCEPT !.navs[k].pc = "released"]

\* a variant that starts the marker's chain at 1 every time
navigateChainOne(w, k, appid0) ==
    LET navigateTo(appid) ==
            [WithStore(w, incrementGameCounter(StoreOf(w))) EXCEPT
               !.ss = [present |-> TRUE, appid |-> appid,
                       mode |-> w.navs[k].mode, chain |-> 1, old |-> FALSE],
               !.page.pending = "assign",
               !.page.target = appid,
               !.navs = RemoveAt(w.navs, k),
               !.obs = [@ EXCEPT !.alert = FALSE, !.byRetry = w.navs[k].auto]]
    IN  navigateTo(IF appid0 = NullNum \/ appid0 = 0 THEN FallbackApp ELSE appid0)

\* navigateToRandomApp(mode) once the picker has resolved to appid0:
\* the marker, incrementGameCounter(), location.assign
\* navigateTo: the marker, incrementGameCounter(), location.assign
navigateFinish(w, k, appid0) ==
    LET navigateTo(appid) ==
            [WithStore(w, incrementGameCounter(StoreOf(w))) EXCEPT
               !.ss = [present |-> TRUE, appid |-> appid,
                       mode |-> w.navs[k].mode,
                       chain |-> (IF w.ss.present THEN w.ss.chain ELSE 0) + 1,
                       old |-> FALSE],
               !.page.pending = "assign",
               !.page.target = appid,
               !.navs = RemoveAt(w.navs, k),
               !.obs = [@ EXCEPT !.alert = FALSE, !.byRetry = w.navs[k].auto]]
    IN  navigateTo(IF appid0 = NullNum \/ appid0 = 0 THEN FallbackApp ELSE appid0)

\* the picker of call k has resolved to id (NullNum: null)
pickerResult(w, k, id) ==
    IF ~w.navs[k].useFilter \/ w.navs[k].i >= 4 THEN navigateFinish(w, k, id)
    ELSE IF id = NullNum THEN pickerStart([w EXCEPT !.navs[k].i = 4], k)
    ELSE [w EXCEPT !.navs[k].pc = "tags", !.navs[k].candidate = id]

\* navigateToRandomApp(mode) up to its first await; call k is at "timeout"
navigateStart(w, k) ==
    IF isGameLimitReached(w.mem)
    THEN [w EXCEPT !.navs = RemoveAt(w.navs, k),
                   !.obs.alert = TRUE]
    ELSE pickerStart([w EXCEPT !.navs[k].useFilter = w.mem.nsfwFilterEnabled,
                               !.obs.alert = FALSE],
                     k)

\* loadCsvIds(batch file) has resolved for call k; ok: the file was read
navigateBatchLoaded(w, k, ok) ==
    LET batchPicked(r) ==
            IF r.val # NullNum
            THEN pickerResult([w EXCEPT !.mem.currentRNG = r.state,
                                        !.obs.alert = FALSE],
                              k, r.val)
            ELSE [w EXCEPT !.mem.currentRNG = r.state, !.obs.alert = FALSE,
                           !.navs[k].pc = "released"]
    IN  batchPicked(Pick(w.mem.currentRNG,
                         IF ok THEN BatchIds(w.navs[k].file) ELSE <<>>))

\* getReleasedAppIds() has resolved for call k
navigateReleasedLoaded(w, k, ok) ==
    LET releasedPicked(r) ==
            pickerResult([w EXCEPT !.mem.currentRNG = r.state, !.obs.alert = FALSE],
                         k, r.val)
    IN  releasedPicked(Pick(w.mem.currentRNG, IF ok THEN ReleasedIds ELSE <<>>))

\* fetchAppTags(candidate) has resolved for call k of getFilteredRandomAppId
navigateTagsLoaded(w, k) ==
    IF w.navs[k].candidate \notin ApiBannedApps
    THEN navigateFinish([w EXCEPT !.obs.alert = FALSE], k, w.navs[k].candidate)
    ELSE pickerStart([w EXCEPT !.obs.alert = FALSE, !.navs[k].i = @ + 1], k)

\* a variant that keeps the marker and does not look up the page it has
\* voided
maybeAutoSkipAgain(w, tagScan) ==
    IF ~w.mem.nsfwFilterEnabled THEN w
    ELSE IF ~w.ss.present THEN w
    ELSE IF w.page.appid # w.ss.appid THEN w
    ELSE IF w.ss.old THEN [w EXCEPT !.ss = NoMarker]
    ELSE IF w.ss.chain >= 5 THEN [w EXCEPT !.ss = NoMarker]
    ELSE IF tagScan = Null THEN w
    ELSE IF tagScan = "false" THEN [w EXCEPT !.ss = NoMarker]
    ELSE [WithStore(w, decrementGameCounter(StoreOf(w))) EXCEPT
            !.page.lastAutoSkippedAppId = w.page.appid,
            !.navs = Append(w.navs,
                            NewTask(IF w.mem.gameMode \in {"pure", "smart"}
                                    THEN w.mem.gameMode ELSE "smart",
                                    FALSE, TRUE)),
            !.obs = [@ EXCEPT !.voidedChain = w.ss.chain,
                              !.voidNav = StoredNavCount(w.ls),
                              !.retries = IF @ < MaxRetries THEN @ + 1 ELSE @]]

\* a variant that forgets the marker when the page's tags cannot be judged
maybeAutoSkipForgets(w, tagScan) ==
    IF ~w.mem.nsfwFilterEnabled THEN w
    ELSE IF ~w.ss.present THEN w
    ELSE IF w.page.appid # w.ss.appid THEN w
    ELSE IF w.page.appid = w.page.lastAutoSkippedAppId THEN w
    ELSE IF w.ss.old THEN [w EXCEPT !.ss = NoMarker]
    ELSE IF w.ss.chain >= 5 THEN [w EXCEPT !.ss = NoMarker]
    ELSE IF tagScan = "false" \/ tagScan = Null THEN [w EXCEPT !.ss = NoMarker]
    ELSE [WithStore(w, decrementGameCounter(StoreOf(w))) EXCEPT
            !.page.lastAutoSkippedAppId = w.page.appid,
            !.ss = NoMarker,
            !.navs = Append(w.navs,
                            NewTask(IF w.mem.gameMode \in {"pure", "smart"}
                                    THEN w.mem.gameMode ELSE "smart",
                                    FALSE, TRUE)),
            !.obs = [@ EXCEPT !.voidedChain = w.ss.chain,
                              !.voidNav = StoredNavCount(w.ls),
                              !.retries = IF @ < MaxRetries THEN @ + 1 ELSE @]]

\* maybeAutoSkipNSFWPage(); tagScan is pageContainsBannedTagText():
\* "true", "false", or Null when the tags are not on the page yet
maybeAutoSkipNSFWPage(w, tagScan) ==
    IF ~w.mem.nsfwFilterEnabled THEN w
    ELSE IF ~w.ss.present THEN w
    ELSE IF w.page.appid # w.ss.appid THEN w
    ELSE IF w.page.appid = w.page.lastAutoSkippedAppId THEN w
    ELSE IF w.ss.old THEN [w EXCEPT !.ss = NoMarker]
    ELSE IF w.ss.chain >= 5 THEN [w EXCEPT !.ss = NoMarker]
    ELSE IF tagScan = Null THEN w
    ELSE IF tagScan = "false" THEN [w EXCEPT !.ss = NoMarker]
    ELSE [WithStore(w, decrementGameCounter(StoreOf(w))) EXCEPT
            !.page.lastAutoSkippedAppId = w.page.appid,
            !.ss = NoMarker,
            !.navs = Append(w.navs,
                            NewTask(IF w.mem.gameMode \in {"pure", "smart"}
                                    THEN w.mem.gameMode ELSE "smart",
                                    FALSE, TRUE)),
            !.obs = [@ EXCEPT !.voidedChain = w.ss.chain,
                              !.voidNav = StoredNavCount(w.ls),
                              !.retries = IF @ < MaxRetries THEN @ + 1 ELSE @]]

\* a variant that reads the seed from the URL on every run
runUrlAlways(w, randomSeed, tagScan) ==
    LET runSeeded(w1) ==
            maybeAutoSkipNSFWPage(
                injectStart(WithStore(w1, getRNG(StoreOf(w1), w1.page.urlSeed,
                                                 randomSeed))),
                tagScan)
    IN  runSeeded([initializeSeedFromURL(w) EXCEPT !.page.seedInitialized = TRUE])

\* run(): the seed from the URL once, getRNG(), the round widget, the skip
\* run(); runSeeded is the part after the URL seed: getRNG(), the round
\* widget, the skip
run(w, randomSeed, tagScan) ==
    LET runSeeded(w1) ==
            maybeAutoSkipNSFWPage(
                injectStart(WithStore(w1, getRNG(StoreOf(w1), w1.page.urlSeed,
                                                 randomSeed))),
                tagScan)
    IN  runSeeded(IF ~w.page.seedInitialized
                  THEN [initializeSeedFromURL(w) EXCEPT !.page.seedInitialized = TRUE]
                  ELSE w)

\* a variant of the interval callback that leaves the round open at expiry
timerTickOpen(w) ==
    IF w.wrap.locked THEN [w EXCEPT !.wrap.timer = "off"]
    ELSE IF w.wrap.timeLeft - 1 <= 0
    THEN [w EXCEPT !.wrap.timeLeft = @ - 1,
                   !.wrap.timer = "fired"]
    ELSE [w EXCEPT !.wrap.timeLeft = @ - 1]

\* the timer's interval callback
timerTick(w) ==
    IF w.wrap.locked THEN [w EXCEPT !.wrap.timer = "off"]
    ELSE IF w.wrap.timeLeft - 1 <= 0
    THEN [w EXCEPT !.wrap.timeLeft = @ - 1,
                   !.wrap.timer = "fired",
                   !.wrap.locked = TRUE]
    ELSE [w EXCEPT !.wrap.timeLeft = @ - 1]

\* the timer's setTimeout callback: navigateToRandomApp(getGameMode() || 'smart')
\* navigateToRandomApp(mode) is called from the page, not from a retry
startCall(w, mode) ==
    navigateStart([w EXCEPT !.navs = Append(w.navs, NewTask(mode, FALSE, FALSE))],
                  Len(w.navs) + 1)

timerNavigate(w) ==
    startCall([w EXCEPT !.wrap.timer = "off"],
              IF w.mem.gameMode = Null THEN "smart" ELSE w.mem.gameMode)

\* the click listener of a Next button of the given mode
clickNext(w, mode) ==
    IF isGameLimitReached(w.mem)
    THEN [w EXCEPT !.obs.alert = FALSE]
    ELSE startCall([w EXCEPT !.obs = NoObs], mode)

\* the Apply button: setSeed(newSeed, limit, mode), then a reload
applySeed(w, token, limit, mode) ==
    [WithStore(w, setSeed(StoreOf(w), token, limit, mode))
       EXCEPT !.page.pending = "reload", !.obs = NoObs]

\* the browser replaces the page: the scripts' variables start afresh, the
\* two storages stay, and main.js calls run()
pageLoad(w, randomSeed, tagScan) ==
    run([w EXCEPT
           !.mem = InitialMem,
           !.page = NewPage(IF w.page.pending = "assign" THEN w.page.target
                            ELSE w.page.appid,
                            IF w.page.pending = "assign" THEN NoItem
                            ELSE w.page.urlSeed),
           !.wrap = NoWrap,
           !.navs = <<>>,
           !.obs = [NoObs EXCEPT !.retries = w.obs.retries]],
        randomSeed, tagScan)

\* twin is a second browser session (a world of its own), for the
\* specifications that run two sessions side by side; NoTwin elsewhere
VARIABLES mem, ls, ss, page, wrap, navs, obs, twin

vars == <<mem, ls, ss, page, wrap, navs, obs, twin>>

NoTwin == <<>>

World ==
    [mem |-> mem, ls |-> ls, ss |-> ss, page |-> page, wrap |-> wrap,
     navs |-> navs, obs |-> obs]

\* the handler has run to its end and left the world v
Commit(w) ==
    \E v \in {w} :
       /\ mem' = v.mem
       /\ ls' = v.ls
       /\ ss' = v.ss
       /\ page' = v.page
       /\ wrap' = v.wrap
       /\ navs' = v.navs
       /\ obs' = v.obs
       /\ twin' = twin

\* what pageContainsBannedTagText() can return on the page of an app
TagScanOf(appid) ==
    {Null, IF appid \in PageBannedApps THEN "true" ELSE "false"}

Loaded == mem.currentRNG # NoRNG

\* no navigation has been requested: the page is not about to be replaced
Settled == page.pending = "none"

\* no navigateToRandomApp call is in flight
Quiet == Settled /\ navs = <<>>

\* a browser that is about to open the start page, with or without ?seed=
Init ==
    /\ mem = InitialMem
    /\ ls = EmptyStorage
    /\ ss = NoMarker
    /\ \E urlSeed \in UrlTokens \cup {NoItem} :
          page = [NewPage(StartApp, urlSeed) EXCEPT !.pending = "open"]
    /\ wrap = NoWrap
    /\ navs = <<>>
    /\ obs = NoObs
    /\ twin = NoTwin

PageLoad ==
    /\ page.pending # "none"
    /\ \E randomSeed \in RandomSeeds :
       \E tagScan \in TagScanOf(IF page.pending = "assign" THEN page.target
                                ELSE page.appid) :
          Commit(pageLoad(World, randomSeed, tagScan))

\* run() again: the MutationObserver, the history hook
RunAgain ==
    /\ Loaded
    /\ Settled
    /\ \E tagScan \in TagScanOf(page.appid) :
          Commit(run([World EXCEPT !.obs.alert = FALSE],
                     NoItem, tagScan))

\* the counters are within the model's bounds, so a navigation may be
\* counted; a call that the limit refuses counts nothing
CanCount ==
    \/ StoredNavCount(ls) < MaxNav /\ ss.chain < MaxChain
    \/ isGameLimitReached(mem)

\* a round is timed only while the navigation its timer asks for is within
\* the model's bounds
ReviewCountArrives ==
    /\ Loaded
    /\ Settled
    /\ wrap.waiting > 0
    /\ \E timerDuration \in {0 - 1} \cup (IF CanCount THEN {TimerSeconds} ELSE {}) :
          Commit(injectResume([World EXCEPT !.obs.alert = FALSE],
                              TrueCountOf(page.appid), timerDuration))

ReviewCountFails ==
    /\ Loaded
    /\ Settled
    /\ wrap.waiting > 0
    /\ Commit(injectResume([World EXCEPT !.obs.alert = FALSE],
                           NullNum, 0 - 1))

\* the guesses the model clicks: the true count and the first other guess
ClickChoices ==
    {wrap.guesses[i] : i \in {j \in 1..Len(wrap.guesses) :
        \/ wrap.guesses[j] = wrap.truecount
        \/ \A h \in 1..(j - 1) : wrap.guesses[h] = wrap.truecount}}

MaxCorrect == 2

ClickGuess ==
    /\ Loaded
    /\ Settled
    /\ wrap.content = "buttons"
    /\ mem.correctCounter < MaxCorrect
    /\ \E picked \in ClickChoices :
          Commit(mark([World EXCEPT !.obs.alert = FALSE], picked))

TimerTick ==
    /\ Loaded
    /\ Settled
    /\ wrap.timer = "running"
    /\ Commit(timerTick([World EXCEPT !.obs.alert = FALSE]))

TimerNavigate ==
    /\ Loaded
    /\ Settled
    /\ wrap.timer = "fired"
    /\ Len(navs) < MaxNavTasks
    /\ CanCount
    /\ Commit(timerNavigate(World))

\* a Next button is shown when no mode is set or the mode is the button's
ClickNext ==
    /\ Loaded
    /\ Settled
    /\ Len(navs) < MaxNavTasks
    /\ CanCount
    /\ \E mode \in {"pure", "smart"} :
          /\ mem.gameMode \in {Null, mode}
          /\ Commit(clickNext(World, mode))

\* the setTimeout(0) of maybeAutoSkipNSFWPage fires
RetryFires ==
    /\ Loaded
    /\ Settled
    /\ CanCount
    /\ \E k \in 1..Len(navs) :
          /\ navs[k].pc = "timeout"
          /\ Commit(navigateStart(World, k))

BatchLoaded ==
    /\ Loaded
    /\ Settled
    /\ \E k \in 1..Len(navs) : \E ok \in BOOLEAN :
          /\ navs[k].pc = "csv"
          /\ Commit(navigateBatchLoaded(World, k, ok))

ReleasedLoaded ==
    /\ Loaded
    /\ Settled
    /\ \E k \in 1..Len(navs) : \E ok \in BOOLEAN :
          /\ navs[k].pc = "released"
          /\ Commit(navigateReleasedLoaded(World, k, ok))

TagsLoaded ==
    /\ Loaded
    /\ Settled
    /\ \E k \in 1..Len(navs) :
          /\ navs[k].pc = "tags"
          /\ Commit(navigateTagsLoaded(World, k))

\* more than 60 s pass since the marker was written
MarkerAges ==
    /\ Settled
    /\ ss.present
    /\ ~ss.old
    /\ ss' = [ss EXCEPT !.old = TRUE]
    /\ UNCHANGED <<mem, ls, page, wrap, navs, obs, twin>>

\* the limit selector shows the limit in force when it is one of its options
\* (updateGameCounter keeps it so), and Unlimited otherwise
SelectValue(max) == IF max \in LimitChoices THEN max ELSE NullNum

\* Apply passes the two selectors' values along with the typed seed
ApplySeed ==
    /\ Loaded
    /\ Quiet
    /\ \E token \in SeedTokens :
          Commit(applySeed(World, token, SelectValue(mem.maxGames), mem.gameMode))

SetLimit ==
    /\ Loaded
    /\ Quiet
    /\ \E limit \in LimitChoices \ {SelectValue(mem.maxGames)} :
          Commit([WithStore(World, setMaxGames(StoreOf(World), limit))
                    EXCEPT !.obs.alert = FALSE])

SetMode ==
    /\ Loaded
    /\ Quiet
    /\ \E mode \in {Null, "pure", "smart"} \ {mem.gameMode} :
          Commit([WithStore(World, setGameMode(StoreOf(World), mode))
                    EXCEPT !.obs.alert = FALSE])

SetFilter ==
    /\ Loaded
    /\ Quiet
    /\ \E enabled \in {~mem.nsfwFilterEnabled} :
          Commit([WithStore(World, setNSFWFilterEnabled(StoreOf(World), enabled))
                    EXCEPT !.obs.alert = FALSE])

ResetCounters ==
    /\ Loaded
    /\ Quiet
    /\ Commit([WithStore(World, resetGameCounter(StoreOf(World)))
                 EXCEPT !.obs.alert = FALSE])

\* the user reloads the page
UserReload ==
    /\ Loaded
    /\ Settled
    /\ \E randomSeed \in RandomSeeds : \E tagScan \in TagScanOf(page.appid) :
          Commit(pageLoad([World EXCEPT !.obs = NoObs], randomSeed, tagScan))

\* the session: seeds, limits, counters, navigation, the content filter
Next ==
    \/ PageLoad
    \/ RunAgain
    \/ ClickNext
    \/ RetryFires
    \/ BatchLoaded
    \/ ReleasedLoaded
    \/ TagsLoaded
    \/ ApplySeed
    \/ SetLimit
    \/ SetFilter
    \/ ResetCounters
    \/ UserReload

Spec == Init /\ [][Next]_vars

(***************************************************************************)
(* buildGuessSet on its own: a widget that waits for the review count, a   *)
(* generator in any of GuessSeeds' states, and a count that arrives.       *)
(***************************************************************************)
\* the generators buildGuessSet is run with: new SeededRNG(0 .. MaxGuessSeed)
MaxGuessSeed == 7

GuessSeeds == 0..MaxGuessSeed

\* the review counts that arrive: the low end, the step thresholds, mid
\* values, and the cap with its neighbours (a page may show more than CAP)
TrueCounts ==
    {0, 1, 2, 5, 19, 20, 39, 40, 59, 60, 61, 250, 7036, 39999,
     CAP - 1, CAP, CAP + 5}

InitGuess ==
    /\ \E s \in GuessSeeds :
          mem = [InitialMem EXCEPT !.currentRNG = NewRNG(<<0, s>>),
                                   !.currentSeed = DecStr(s)]
    /\ ls = EmptyStorage
    /\ ss = NoMarker
    /\ page = NewPage(StartApp, NoItem)
    /\ wrap = [NoWrap EXCEPT !.state = "loading", !.content = "wait",
                             !.waiting = 1]
    /\ navs = <<>>
    /\ obs = NoObs
    /\ twin = NoTwin

\* the count arrives and the widget is built; obs keeps what buildGuessSet
\* returned and went through
BuildRound ==
    /\ wrap.waiting > 0
    /\ \E got \in TrueCounts :
          Commit([injectResume(World, got, 0 - 1)
                    EXCEPT !.obs = BuildGuessSet(got, mem.currentRNG)])

NextGuess == BuildRound

SpecGuess == InitGuess /\ [][NextGuess]_vars

(***************************************************************************)
(* The rounds of a session: the widget, its guess buttons and its timer,   *)
(* and the navigations between pages, with the content filter off and the  *)
(* limit the shared link carries.                                          *)
(***************************************************************************)
NextRound ==
    \/ PageLoad
    \/ RunAgain
    \/ ReviewCountArrives
    \/ ReviewCountFails
    \/ ClickGuess
    \/ TimerTick
    \/ TimerNavigate
    \/ ClickNext
    \/ BatchLoaded
    \/ ReleasedLoaded
    \/ UserReload

SpecRound == Init /\ [][NextRound]_vars

\* the rounds with nobody reloading the page, and with what the browser
\* is bound to do: a timeout that is due fires, a fetch settles
NextTimed ==
    \/ PageLoad
    \/ RunAgain
    \/ ReviewCountArrives
    \/ ReviewCountFails
    \/ ClickGuess
    \/ TimerTick
    \/ TimerNavigate
    \/ ClickNext
    \/ BatchLoaded
    \/ ReleasedLoaded

FairRound ==
    /\ Init
    /\ [][NextTimed]_vars
    /\ WF_vars(TimerNavigate)
    /\ WF_vars(BatchLoaded)
    /\ WF_vars(ReleasedLoaded)

(***************************************************************************)
(* Two sessions side by side: the same seed token, the same pages, id      *)
(* lists and review counts, and each session's page events (the review     *)
(* count arriving, a click on Next, the picker's file arriving, the page   *)
(* load) in any order.  The first session is the state proper, the second  *)
(* one is twin.                                                            *)
(***************************************************************************)
\* the world of session s
Side(s) == IF s = 1 THEN World ELSE twin

\* session s moves to the world w
Land(s, w) ==
    IF s = 1 THEN Commit(w)
    ELSE twin' = w /\ UNCHANGED <<mem, ls, ss, page, wrap, navs, obs>>

\* the browser about to open the start page with ?seed=token
FirstWorld(token) ==
    [mem |-> InitialMem, ls |-> EmptyStorage, ss |-> NoMarker,
     page |-> [NewPage(StartApp, token) EXCEPT !.pending = "open"],
     wrap |-> NoWrap, navs |-> <<>>, obs |-> NoObs]

InitPair ==
    \E token \in SeedTokens \cup UrlTokens :
       /\ mem = InitialMem
       /\ ls = EmptyStorage
       /\ ss = NoMarker
       /\ page = FirstWorld(token).page
       /\ wrap = NoWrap
       /\ navs = <<>>
       /\ obs = NoObs
       /\ twin = FirstWorld(token)

PairPageLoad ==
    \E s \in {1, 2} : \E randomSeed \in RandomSeeds :
       /\ Side(s).page.pending # "none"
       /\ Land(s, pageLoad(Side(s), randomSeed, Null))

PairCountArrives ==
    \E s \in {1, 2} :
       /\ Side(s).page.pending = "none"
       /\ Side(s).wrap.waiting > 0
       /\ Land(s, injectResume(Side(s), TrueCountOf(Side(s).page.appid), 0 - 1))

PairClickNext ==
    \E s \in {1, 2} :
       /\ Side(s).page.pending = "none"
       /\ Side(s).mem.currentRNG # NoRNG
       /\ Len(Side(s).navs) < MaxNavTasks
       /\ StoredNavCount(Side(s).ls) < MaxNav
       /\ Land(s, clickNext(Side(s), "smart"))

PairBatchLoaded ==
    \E s \in {1, 2} : \E k \in 1..Len(Side(s).navs) :
       /\ Side(s).page.pending = "none"
       /\ Side(s).navs[k].pc = "csv"
       /\ Land(s, navigateBatchLoaded(Side(s), k, TRUE))

NextPair ==
    \/ PairPageLoad
    \/ PairCountArrives
    \/ PairClickNext
    \/ PairBatchLoaded

SpecPair == InitPair /\ [][NextPair]_vars

(***************************************************************************)
(* The generator on its own: two instances made from one seed draw at      *)
(* their own pace, and getRNG restores a third from the stored seed at a   *)
(* stored navigation count.  obs.outs and twin.outs are the words drawn.   *)
(***************************************************************************)
\* navigation counts the restore is tried at
MaxGenNav == 2

\* draws each instance makes
MaxDraws == RestoreStride * MaxGenNav

InitGen ==
    \E token \in SeedTokens \cup RandomSeeds :
       /\ mem = setSeed([mem |-> InitialMem, ls |-> EmptyStorage],
                        token, NullNum, Undefined).mem
       /\ ls = setSeed([mem |-> InitialMem, ls |-> EmptyStorage],
                       token, NullNum, Undefined).ls
       /\ ss = NoMarker
       /\ page = NewPage(StartApp, NoItem)
       /\ wrap = NoWrap
       /\ navs = <<>>
       /\ obs = [outs |-> <<>>]
       /\ twin = [rng |-> NewRNG(hashString(ToUpperCase(token))), outs |-> <<>>,
                  restored |-> NoRNG, at |-> NullNum]

\* the first instance draws: next()
GenDraw ==
    /\ Len(obs.outs) < MaxDraws
    /\ mem' = [mem EXCEPT !.currentRNG = RngNext(mem.currentRNG).state]
    /\ obs' = [outs |-> Append(obs.outs, RngNext(mem.currentRNG).out)]
    /\ UNCHANGED <<ls, ss, page, wrap, navs, twin>>

\* the second instance draws
TwinDraw ==
    /\ Len(twin.outs) < MaxDraws
    /\ twin' = [twin EXCEPT !.rng = RngNext(twin.rng).state,
                            !.outs = Append(twin.outs, RngNext(twin.rng).out)]
    /\ UNCHANGED <<mem, ls, ss, page, wrap, navs, obs>>

\* a page load restores the generator from the stored seed, with navcount n
\* and gamecount g in the store
GenRestore ==
    \E n \in 0..MaxGenNav : \E g \in 0..n :
       /\ twin' = [twin EXCEPT
                     !.restored =
                        getRNG([mem |-> InitialMem,
                                ls |-> [ls EXCEPT !.navcount = DecStr(n),
                                                  !.gamecount = DecStr(g)]],
                               NoItem, NoItem).mem.currentRNG,
                     !.at = n]
       /\ UNCHANGED <<mem, ls, ss, page, wrap, navs, obs>>

NextGen ==
    \/ GenDraw
    \/ TwinDraw
    \/ GenRestore

SpecGen == InitGen /\ [][NextGen]_vars

(***************************************************************************)
(* The seed module on its own: its operations called in any order on a     *)
(* localStorage that may throw.  Each call is made with the events of the  *)
(* call before delivered and a storage that takes `left` more writes;      *)
(* obs keeps the call's name and inputs.  A behaviour is followed up to    *)
(* its first call on a failing storage.                                    *)
(***************************************************************************)
\* the seed tokens given to setSeed: "ab:2", "ab:Unlimited", "Cd"
StoreTokens ==
    {<<97, 98, 58, 50>>,
     <<97, 98, 58, 85, 110, 108, 105, 109, 105, 116, 101, 100>>,
     <<67, 100>>}

\* writes a failing storage takes before it throws
MaxWritten == 2

\* plays counted per seed
MaxPlays == 2

\* how the storage behaves during one call
FailPoints == {NullNum} \cup 0..MaxWritten

\* the store a call starts from
StoreAt(left) ==
    [mem |-> [mem EXCEPT !.notified = <<>>],
     ls |-> [ls EXCEPT !.left = left]]

\* the store a call has left behind
StoreCommit(S, call) ==
    /\ mem' = S.mem
    /\ ls' = [S.ls EXCEPT !.left = NullNum]
    /\ obs' = call
    /\ UNCHANGED <<ss, page, wrap, navs, twin>>

\* before: the stored navcount a setSeed call found
NoCall ==
    [op |-> "none", left |-> NullNum, token |-> NoItem, limit |-> NullNum,
     before |-> 0]

InitStore ==
    /\ mem = InitialMem
    /\ ls = EmptyStorage
    /\ ss = NoMarker
    /\ page = NewPage(StartApp, NoItem)
    /\ wrap = NoWrap
    /\ navs = <<>>
    /\ obs = NoCall
    /\ twin = NoTwin

\* a page is loaded and its first run() calls getRNG()
StoreLoad ==
    /\ obs.left = NullNum
    /\ \E urlSeed \in UrlTokens \cup {NoItem} : \E randomSeed \in RandomSeeds :
       \E left \in {NullNum, 0} :
       StoreCommit(getRNG([StoreAt(left) EXCEPT !.mem = InitialMem],
                          urlSeed, randomSeed),
                   [NoCall EXCEPT !.op = "load", !.left = left,
                                  !.token = urlSeed])

\* a later run() calls getRNG()
StoreGetRNG ==
    /\ Loaded
    /\ obs.left = NullNum
    /\ \E randomSeed \in RandomSeeds : \E left \in {NullNum, 0} :
          StoreCommit(getRNG(StoreAt(left), NoItem, randomSeed),
                      [NoCall EXCEPT !.op = "getRNG", !.left = left])

\* setSeed with a typed token, or with the string setSeed last returned
StoreSetSeed ==
    /\ Loaded
    /\ obs.left = NullNum
    /\ \E token \in StoreTokens \cup {CanonicalSeed(mem)} :
       \E limit \in LimitChoices : \E mode \in {Undefined, "pure"} :
       \E left \in FailPoints :
          StoreCommit(setSeed(StoreAt(left), token, limit, mode),
                      [op |-> "setSeed", left |-> left, token |-> token,
                       limit |-> limit, before |-> StoredNavCount(ls)])

StoreCount ==
    /\ Loaded
    /\ obs.left = NullNum
    /\ \E left \in FailPoints :
          \/ /\ mem.gameCounter < MaxPlays
             /\ StoredNavCount(ls) < MaxNav
             /\ StoreCommit(incrementGameCounter(StoreAt(left)),
                            [NoCall EXCEPT !.op = "incrementGameCounter",
                                           !.left = left])
          \/ StoreCommit(decrementGameCounter(StoreAt(left)),
                         [NoCall EXCEPT !.op = "decrementGameCounter",
                                        !.left = left])
          \/ /\ mem.correctCounter < mem.gameCounter
             /\ StoreCommit(incrementCorrectCounter(StoreAt(left)),
                            [NoCall EXCEPT !.op = "incrementCorrectCounter",
                                           !.left = left])
          \/ StoreCommit(resetGameCounter(StoreAt(left)),
                         [NoCall EXCEPT !.op = "resetGameCounter",
                                        !.left = left])

StoreSet ==
    /\ Loaded
    /\ obs.left = NullNum
    /\ \E left \in {NullNum, 0} :
          \/ \E limit \in LimitChoices :
                StoreCommit(setMaxGames(StoreAt(left), limit),
                            [NoCall EXCEPT !.op = "setMaxGames", !.left = left,
                                           !.limit = limit])
          \/ \E mode \in {"pure"} :
                StoreCommit(setGameMode(StoreAt(left), mode),
                            [NoCall EXCEPT !.op = "setGameMode", !.left = left])
          \/ \E enabled \in {TRUE} :
                StoreCommit(setNSFWFilterEnabled(StoreAt(left), enabled),
                            [NoCall EXCEPT !.op = "setNSFWFilterEnabled",
                                           !.left = left])

NextStore ==
    \/ StoreLoad
    \/ StoreGetRNG
    \/ StoreSetSeed
    \/ StoreCount
    \/ StoreSet

SpecStore == InitStore /\ [][NextStore]_vars

(***************************************************************************)
(* The generator's methods on their own: a generator in any of            *)
(* GuessSeeds' states on which randInt(min, max) is called with the ranges *)
(* of DrawRanges, and shuffle and pick with small arrays; obs keeps the    *)
(* call and what it returned.                                              *)
(***************************************************************************)
\* <<min, max>>: the ranges buildGuessSet uses, one-value ranges, and ranges
\* with max < min (max - min + 1 zero and negative)
DrawRanges ==
    {<<40, 60>>, <<4, 5>>, <<-3, 3>>, <<-2, 3>>, <<0, 0>>, <<7, 7>>,
     <<5, 4>>, <<5, 3>>, <<3, -3>>, <<60, 40>>}

\* calls made on one generator
MaxRangeDraws == 2

\* returned: the call came back with a value (randInt has no throw);
\* array, out: the argument of shuffle or pick and the array shuffle returns
NoDraw == [op |-> "none", min |-> 0, max |-> 0, val |-> 0, returned |-> FALSE,
           calls |-> 0, array |-> <<>>, out |-> <<>>]

InitDraw ==
    /\ \E s \in GuessSeeds :
          mem = [InitialMem EXCEPT !.currentRNG = NewRNG(<<0, s>>),
                                   !.currentSeed = DecStr(s)]
    /\ ls = EmptyStorage
    /\ ss = NoMarker
    /\ page = NewPage(StartApp, NoItem)
    /\ wrap = NoWrap
    /\ navs = <<>>
    /\ obs = NoDraw
    /\ twin = NoTwin

\* rng.randInt(min, max)
DrawInt ==
    /\ obs.calls < MaxRangeDraws
    /\ \E range \in DrawRanges :
       \E r \in {RandInt(mem.currentRNG, range[1], range[2])} :
          /\ mem' = [mem EXCEPT !.currentRNG = r.state]
          /\ obs' = [NoDraw EXCEPT !.op = "randInt", !.min = range[1],
                                    !.max = range[2], !.val = r.val,
                                    !.returned = TRUE, !.calls = obs.calls + 1]
          /\ UNCHANGED <<ls, ss, page, wrap, navs, twin>>

\* rng.shuffle(array), for an empty array, arrays of one to four elements
\* (one with an element twice) and the six batch files
DrawShuffle ==
    /\ obs.calls < MaxRangeDraws
    /\ \E array \in {<<>>, <<7>>, <<1, 2>>, <<3, 3, 5>>, <<1, 2, 3, 4>>,
                     BATCH_FILES} :
       \E r \in {Shuffle(mem.currentRNG, array)} :
          /\ mem' = [mem EXCEPT !.currentRNG = r.state]
          /\ obs' = [NoDraw EXCEPT !.op = "shuffle", !.array = array,
                                    !.out = r.val, !.returned = TRUE,
                                    !.calls = obs.calls + 1]
          /\ UNCHANGED <<ls, ss, page, wrap, navs, twin>>

\* rng.pick(array)
DrawPick ==
    /\ obs.calls < MaxRangeDraws
    /\ \E array \in {<<>>, <<7>>, <<3, 3, 5>>, BATCH_FILES} :
       \E r \in {Pick(mem.currentRNG, array)} :
          /\ mem' = [mem EXCEPT !.currentRNG = r.state]
          /\ obs' = [NoDraw EXCEPT !.op = "pick", !.array = array,
                                    !.val = r.val, !.returned = TRUE,
                                    !.calls = obs.calls + 1]
          /\ UNCHANGED <<ls, ss, page, wrap, navs, twin>>

NextDraw ==
    \/ DrawInt
    \/ DrawShuffle
    \/ DrawPick

SpecDraw == InitDraw /\ [][NextDraw]_vars

(***************************************************************************)
(* Two Next buttons on one page: a second navigateToRandomApp call may be  *)
(* started while the first awaits its picker, and a call that awaits goes  *)
(* on when its picker resolves, also after another call has asked for the  *)
(* navigation (the page runs until the browser replaces it).               *)
(***************************************************************************)
\* navigateToRandomApp calls in flight at once
MaxRaceTasks == 2

\* a click on a Next button while fewer than MaxRaceTasks calls are awaiting
RaceClick ==
    /\ Loaded
    /\ Settled
    /\ Len(navs) < MaxRaceTasks
    /\ CanCount
    /\ \E mode \in {"pure", "smart"} :
          /\ mem.gameMode \in {Null, mode}
          /\ Commit(clickNext(World, mode))

\* the picker of an awaiting call resolves and the call runs to its end
RaceResume ==
    /\ Loaded
    /\ \E k \in 1..Len(navs) : \E ok \in BOOLEAN :
          Commit(CASE navs[k].pc = "csv" -> navigateBatchLoaded(World, k, ok)
                   [] navs[k].pc = "released" ->
                         navigateReleasedLoaded(World, k, ok)
                   [] OTHER -> navigateTagsLoaded(World, k))

NextRace ==
    \/ PageLoad
    \/ RaceClick
    \/ RaceResume

SpecRace == Init /\ [][NextRace]_vars

(***************************************************************************)
(* maybeAutoSkipNSFWPage on its own: run() calls it again and again on a   *)
(* page that a navigation has opened, with the marker, the filter and the  *)
(* counters in any of the states a session can have left them in.  twin    *)
(* keeps what pageContainsBannedTagText() returned to the last call.       *)
(***************************************************************************)
\* the page is one of two a navigation has opened; the session has counted
\* `plays` pages and has the filter set to `enabled`; the marker is one
\* navigateToRandomApp can have left: none, or one for a page, fresh or
\* older than 60 s, first of its chain or fifth
InitSkip ==
    LET SkipSession(enabled, plays) ==
            LET Fresh(S) == setNSFWFilterEnabled(S, enabled)
                Counted(S) == IF plays = 0 THEN S ELSE incrementGameCounter(S)
            IN  Counted(Fresh(getRNG([mem |-> InitialMem, ls |-> EmptyStorage],
                                     NoItem, CHOOSE s \in RandomSeeds : TRUE)))
    IN  /\ \E enabled \in BOOLEAN : \E plays \in 0..1 :
           \E S \in {SkipSession(enabled, plays)} :
              /\ mem = S.mem
              /\ ls = S.ls
        /\ \E appid \in {11, 12} :
              page = [NewPage(appid, NoItem) EXCEPT !.seedInitialized = TRUE]
        /\ \/ ss = NoMarker
           \/ \E appid \in {11, 12} : \E chain \in {1, 5} : \E old \in BOOLEAN :
                 ss = [present |-> TRUE, appid |-> appid, mode |-> "smart",
                       chain |-> chain, old |-> old]
        /\ wrap = NoWrap
        /\ navs = <<>>
        /\ obs = NoObs
        /\ twin = NoTwin

\* one more call of maybeAutoSkipNSFWPage
SkipRun ==
    \E tagScan \in TagScanOf(page.appid) :
    \E v \in {maybeAutoSkipNSFWPage(World, tagScan)} :
       /\ mem' = v.mem
       /\ ls' = v.ls
       /\ ss' = v.ss
       /\ page' = v.page
       /\ wrap' = v.wrap
       /\ navs' = v.navs
       /\ obs' = v.obs
       /\ twin' = <<tagScan>>

SpecSkip == InitSkip /\ [][SkipRun]_vars

(***************************************************************************)
(* Several injectSteamGuessingGame calls on one page: every run() starts   *)
(* one, and each awaits the review count on its own before it goes on.     *)
(***************************************************************************)
\* injectSteamGuessingGame calls awaiting at once
MaxAwaiting == 2

\* run() starts one more injectSteamGuessingGame call while others await
InjectAgain ==
    /\ Loaded
    /\ Settled
    /\ wrap.waiting > 0
    /\ wrap.waiting < MaxAwaiting
    /\ \E v \in {injectStart([World EXCEPT !.wrap.waiting = 0])} :
          Commit([v EXCEPT !.wrap.waiting = wrap.waiting + v.wrap.waiting])

NextInject ==
    \/ PageLoad
    \/ InjectAgain
    \/ ReviewCountArrives
    \/ ReviewCountFails
    \/ ClickNext
    \/ BatchLoaded
    \/ ReleasedLoaded

SpecInject == Init /\ [][NextInject]_vars

(***************************************************************************)
(* The properties.                                                         *)
(***************************************************************************)
\* the widget's buttons have been built
Built == wrap.content = "buttons"

\* C1: buildGuessSet returns at least MIN_ANSWERS (6) guesses for every
\* true count in [0, CAP], T = CAP included
C1_AtLeastSix == Built => Len(wrap.guesses) >= MIN_ANSWERS

\* a limit is set and the play count has reached it
AtLimit == mem.maxGames # NullNum /\ mem.gameCounter >= mem.maxGames

C3_WithinLimit == mem.maxGames # NullNum => mem.gameCounter <= mem.maxGames

\* C4: the stored navigation count is never below the play count, and it
\* only ever goes down to 0, together with the play count (setSeed)
C4_NavAtLeastPlay ==
    /\ [](StoredNavCount(ls) >= mem.gameCounter
          /\ StoredNavCount(ls) >= SavedGameCount(ls))
    /\ [][StoredNavCount(ls') < StoredNavCount(ls)
             => (StoredNavCount(ls') = 0 /\ SavedGameCount(ls') = 0
                 /\ mem'.gameCounter = 0)]_vars

\* a play has been voided: the navigation count is ahead of the play count
C4_VoidedPlay ==
    Loaded /\ mem.gameCounter > 0 /\ StoredNavCount(ls) > mem.gameCounter

\* C5: a navigation that an auto-retry requests stores a chain counter one
\* above the chain of the page the retry has voided (so that five voided
\* pages in a row reach the ceiling)
C5_ChainGrows ==
    (page.pending = "assign" /\ obs.byRetry) => ss.chain = obs.voidedChain + 1

\* C6: after an Advance from a fresh seed, a void of its page and the
\* retry's Advance, the navigation count is 2 and the play count 1, and
\* the page load that follows restores a generator other than the one
\* restored at navigation count 1
C6_RetryRestores ==
    [][(page.pending = "assign" /\ obs.byRetry /\ obs.voidNav = 1)
          => /\ StoredNavCount(ls) = 2
             /\ mem.gameCounter = 1
             /\ SavedGameCount(ls) = 1
             /\ mem'.currentRNG
                  # FastForward(NewRNG(hashString(ls.seed)), RestoreStride)]_vars

\* the page a retry has navigated to is loaded, at navigation count 2
C6_AfterRetry ==
    /\ Settled
    /\ Loaded
    /\ obs.retries >= 1
    /\ StoredNavCount(ls) = 2
    /\ mem.gameCounter = 1
    /\ mem.currentRNG
         = FastForward(NewRNG(hashString(ls.seed)), 2 * RestoreStride)

\* C7: one widget calls incrementCorrectCounter at most once, and only if
\* the pick of the call that set the lock is the true count
C7_CountedOnce ==
    /\ wrap.scored <= 1
    /\ (wrap.scored = 1 => wrap.firstPick = wrap.truecount)

\* mark has been called again on a round that was counted correct
C7_MarkedAgain == wrap.marks >= 2 /\ wrap.scored = 1

\* C8: two sessions with the same seed token and the same inputs pick the
\* same target at the same navigation count and build the same guess set
\* on the same page, whatever the order of each session's page events
C8_SameRun ==
    /\ (/\ page.pending = "assign"
        /\ twin.page.pending = "assign"
        /\ StoredNavCount(ls) = StoredNavCount(twin.ls)
        /\ page.appid = twin.page.appid)
          => page.target = twin.page.target
    /\ (/\ wrap.state = "ready"
        /\ twin.wrap.state = "ready"
        /\ StoredNavCount(ls) = StoredNavCount(twin.ls)
        /\ page.appid = twin.page.appid)
          => wrap.guesses = twin.wrap.guesses

\* C9: two generators made from one seed draw the same words in the same
\* order, and a generator restored at navigation count n is in the state
\* of a fresh one after exactly 10 * n draws
C9_SameDraws ==
    /\ \A i \in 1..Len(obs.outs) :
          i <= Len(twin.outs) => obs.outs[i] = twin.outs[i]
    /\ (twin.at # NullNum /\ Len(obs.outs) = RestoreStride * twin.at)
          => twin.restored = mem.currentRNG
    /\ Len(obs.outs) = Len(twin.outs) => mem.currentRNG = twin.rng

\* both instances have made all their draws and a restore at the highest
\* navigation count has been made
C9_Replayed ==
    /\ Len(obs.outs) = MaxDraws
    /\ Len(twin.outs) = MaxDraws
    /\ twin.at = MaxGenNav

\* the state k draws after `state`: state + k * 0x6d2b79f5, as a number
DrawsAhead(state, k) ==
    <<state[1] + (k * Increment[1]) + ((state[2] + (k * Increment[2])) \div W16),
      (state[2] + (k * Increment[2])) % W16>>

\* the page that is being loaded has no seed parameter and the store has a
\* seed: getRNG restores
Restores ==
    /\ PageLoad \/ UserReload
    /\ Truthy(ls.seed)
    /\ ~Truthy(IF page.pending = "assign" THEN NoItem ELSE page.urlSeed)

\* C10: the generator getRNG restores is 10 * navcount draws ahead of
\* new SeededRNG(hashString(stored seed)), whatever the play count
C10_RestoreDistance ==
    [][Restores
          => mem'.currentRNG
               = DrawsAhead(NewRNG(hashString(ls.seed)),
                            RestoreStride * StoredNavCount(ls))]_vars

\* a generator has been restored with the navigation count ahead of the
\* play count
C10_Restored ==
    /\ Settled
    /\ Loaded
    /\ page.urlSeed = NoItem
    /\ StoredNavCount(ls) > mem.gameCounter
    /\ mem.currentRNG
         = DrawsAhead(NewRNG(hashString(ls.seed)),
                      RestoreStride * StoredNavCount(ls))

\* a call of setSeed has been made on a working storage: by hand, or by the
\* load of a page whose URL carries a seed
SeedWasSet ==
    /\ obs.left = NullNum
    /\ obs.op = "setSeed" \/ (obs.op = "load" /\ obs.token # NoItem)

\* C11: after setSeed the play count and the correct count are 0 in
\* memory, the stored play, navigation and correct counts are "0", and
\* the generator is a fresh one for the hash of the seed now in force
C11_SeedResets ==
    SeedWasSet
      => /\ mem.gameCounter = 0
         /\ mem.correctCounter = 0
         /\ ls.gamecount = <<48>>
         /\ ls.navcount = <<48>>
         /\ ls.correctcount = <<48>>
         /\ ls.seed = mem.currentSeed
         /\ mem.currentRNG = NewRNG(hashString(ls.seed))
         /\ StoredNavCount(ls) = 0

\* setSeed has reset a session that had counted MaxNav navigations
C11_ResetAfterPlays ==
    /\ obs.op = "setSeed"
    /\ obs.left = NullNum
    /\ obs.before = MaxNav
    /\ ls.navcount = <<48>>
    /\ mem.gameCounter = 0

\* the seed and limit a token of StoreTokens stands for
TokenSeed(token) ==
    IF token[1] = 97 THEN <<65, 66>> ELSE <<67, 68>>

TokenLimit(token) ==
    IF token = <<97, 98, 58, 50>> THEN 2 ELSE NullNum

\* C12: a token "<seed>:<n>" sets the seed in upper case and the limit n,
\* "<seed>:Unlimited" and "<seed>" set no limit, a limit argument wins over
\* the token's suffix, and the string setSeed returned, given back to
\* setSeed, leaves the seed and the limit as they are
C12_SeedRoundTrip ==
    /\ []((obs.op = "setSeed" /\ obs.token \in StoreTokens)
            => /\ mem.currentSeed = TokenSeed(obs.token)
               /\ mem.maxGames = IF obs.limit # NullNum THEN obs.limit
                                 ELSE TokenLimit(obs.token))
    /\ [][(obs'.op = "setSeed" /\ obs'.token = CanonicalSeed(mem)
                               /\ obs'.limit = NullNum)
             => /\ mem'.currentSeed = mem.currentSeed
                /\ mem'.maxGames = mem.maxGames]_vars

\* setSeed has been given the string it returned for a seed with a limit
C12_FedBack ==
    /\ obs.op = "setSeed"
    /\ obs.limit = NullNum
    /\ mem.maxGames # NullNum
    /\ obs.token = CanonicalSeed(mem)
    /\ obs.token \notin StoreTokens

\* the round's timer has expired
Expired == wrap.timer = "fired"

Answered == wrap.firstPick # NullNum

\* C14: once the user has answered, the timer is off, and no step of the
\* timer (a tick, the navigation at expiry) is taken on that round
C14_TimerCancelled ==
    /\ [](Answered => wrap.timer = "off")
    /\ [][Answered => ~(TimerTick \/ TimerNavigate)]_vars

\* a timed round has been answered before its timer expired
C14_AnsweredInTime ==
    /\ Answered
    /\ wrap.timeLeft > 0
    /\ wrap.timer = "off"


\* the persisted fields of the session record that the counters depend on
SessionFields(l) == <<l.seed, l.gamecount, l.navcount, l.correctcount>>

\* what the call obs records leaves persisted when every write is taken
WrittenWhole(call) ==
    CASE call.op = "setSeed" ->
            setSeed(StoreAt(NullNum), call.token, call.limit, Undefined).ls
      [] call.op = "incrementGameCounter" ->
            incrementGameCounter(StoreAt(NullNum)).ls
      [] call.op = "resetGameCounter" ->
            resetGameCounter(StoreAt(NullNum)).ls
      [] OTHER -> ls

\* C15: after setSeed, incrementGameCounter or resetGameCounter, also on a
\* storage that throws after some of the call's writes, the persisted seed,
\* gamecount, navcount and correctcount are all as before the call or all as
\* the whole call writes them.
C15_NeverTorn ==
    [][obs'.op \in {"setSeed", "incrementGameCounter", "resetGameCounter"}
          => \/ SessionFields(ls') = SessionFields(ls)
             \/ SessionFields(ls') = SessionFields(WrittenWhole(obs'))]_vars

\* the in-memory change and the events of the call obs' records
AppliedInMemory ==
    CASE obs'.op = "setSeed" ->
            /\ mem'.currentSeed = parseSeedWithLimit(obs'.token).seed
            /\ mem'.currentRNG = NewRNG(hashString(mem'.currentSeed))
            /\ mem'.gameCounter = 0
            /\ mem'.correctCounter = 0
            /\ mem'.notified = <<"seedchanged">>
      [] obs'.op = "load" ->
            /\ mem'.currentRNG = NewRNG(hashString(mem'.currentSeed))
            /\ mem'.gameCounter = 0
            /\ mem'.correctCounter = 0
            /\ mem'.notified = <<"seedchanged">>
      [] obs'.op = "getRNG" ->
            mem' = [mem EXCEPT !.notified = <<>>]
      [] obs'.op = "incrementGameCounter" ->
            /\ mem'.gameCounter = mem.gameCounter + 1
            /\ mem'.notified = <<"gamecountchanged">>
      [] obs'.op = "decrementGameCounter" ->
            IF mem.gameCounter > 0
            THEN /\ mem'.gameCounter = mem.gameCounter - 1
                 /\ mem'.notified = <<"gamecountchanged">>
            ELSE mem' = [mem EXCEPT !.notified = <<>>]
      [] obs'.op = "incrementCorrectCounter" ->
            /\ mem'.correctCounter = mem.correctCounter + 1
            /\ mem'.notified = <<"scorechanged">>
      [] obs'.op = "resetGameCounter" ->
            /\ mem'.gameCounter = 0
            /\ mem'.correctCounter = 0
            /\ mem'.notified = <<"gamecountchanged", "scorechanged">>
      [] obs'.op = "setMaxGames" ->
            /\ mem'.maxGames = obs'.limit
            /\ mem'.notified = <<"seedchanged">>
      [] obs'.op = "setGameMode" ->
            /\ mem'.gameMode = "pure"
            /\ mem'.notified = <<"seedchanged">>
      [] obs'.op = "setNSFWFilterEnabled" ->
            /\ mem'.nsfwFilterEnabled
            /\ mem'.notified = <<"nsfwfilterchanged">>
      [] OTHER -> FALSE

\* C16: on a localStorage whose every call throws, setSeed, getRNG, the
\* counter operations and the settings setters return without an exception,
\* make their change to the module variables and dispatch their event
\* (decrementGameCounter at 0 has no change and no event); nothing is
\* persisted.
C16_ProceedsInMemory ==
    [][obs'.left = 0 => /\ ~mem'.raised
                        /\ AppliedInMemory
                        /\ ls' = ls]_vars

C16_CountedUnsaved ==
    /\ obs.left = 0
    /\ obs.op = "incrementGameCounter"
    /\ mem.gameCounter = SavedGameCount(ls) + 1
    /\ mem.notified = <<"gamecountchanged">>

\* C19: once a generator exists, getRNG() returns it as it is: no draw is
\* consumed and seed, limit, mode, counters and the persisted values stay,
\* whatever the storage holds or does.
C19_GetRNGIdempotent ==
    [][obs'.op = "getRNG" => /\ mem' = [mem EXCEPT !.notified = <<>>]
                             /\ ls' = ls]_vars

C19_KeptAhead ==
    /\ obs.op = "getRNG"
    /\ mem.gameCounter > 0
    /\ mem.currentRNG #
          FastForward(NewRNG(hashString(ls.seed)),
                      StoredNavCount(ls) * RestoreStride)

\* how often v is among the guesses shown
Shown(v) == Cardinality({i \in 1..Len(wrap.guesses) : wrap.guesses[i] = v})

\* C17: the guesses built for a true count contain the count (truncated and
\* clamped to [0, CAP]) exactly once; the lowest-option tweak and the other
\* phases leave it in the set.
C17_TruthShownOnce ==
    Built => /\ Shown(NormaliseTrueCount(wrap.truecount)) = 1
             /\ NormaliseTrueCount(wrap.truecount) \in Range(obs.answers)

\* the tweak has replaced the lowest guess of the downward phase by 0 or 1
C17_TweakedBelowTruth ==
    /\ Built
    /\ \E v \in Range(obs.down) : v \notin Range(wrap.guesses)
    /\ Range(wrap.guesses) \cap {0, 1} # {}
    /\ Shown(wrap.truecount) = 1

\* C18: the guesses shown are pairwise distinct integers in [0, CAP], for
\* every true count and generator state.
C18_DistinctWithinCap ==
    Built => /\ \A i \in 1..Len(wrap.guesses) : wrap.guesses[i] \in 0..CAP
             /\ \A i, j \in 1..Len(wrap.guesses) :
                   wrap.guesses[i] = wrap.guesses[j] => i = j

\* the upward phase has reached the cap from a lower true count
C18_CappedAbove ==
    /\ Built
    /\ wrap.truecount < CAP
    /\ CAP \in Range(obs.up)
    /\ Shown(CAP) = 1

\* C20: randInt(min, max) returns an integer in [min, max] when max >= min,
\* and a call with max < min returns no value (it is rejected).
C20_DrawIntContract ==
    obs.op = "randInt"
       => IF obs.max >= obs.min
          THEN obs.returned /\ obs.val \in obs.min..obs.max
          ELSE ~obs.returned

\* the fields of f other than those named in own
Others(f, own) == [k \in DOMAIN f \ own |-> f[k]]

\* C21: setMaxGames, setGameMode, setNSFWFilterEnabled and resetGameCounter
\* leave the seed, the generator and the stored navigation count as they
\* are; each setter changes its own variable and its own stored key and
\* nothing else, the counters included.
C21_SettersKeepSession ==
    [][/\ obs'.op = "setMaxGames"
          => /\ Others(mem', {"maxGames", "notified"})
                   = Others(mem, {"maxGames", "notified"})
             /\ Others(ls', {"maxgames"}) = Others(ls, {"maxgames"})
       /\ obs'.op = "setGameMode"
          => /\ Others(mem', {"gameMode", "notified"})
                   = Others(mem, {"gameMode", "notified"})
             /\ Others(ls', {"gamemode"}) = Others(ls, {"gamemode"})
       /\ obs'.op = "setNSFWFilterEnabled"
          => /\ Others(mem', {"nsfwFilterEnabled", "notified"})
                   = Others(mem, {"nsfwFilterEnabled", "notified"})
             /\ Others(ls', {"nsfwfilter"}) = Others(ls, {"nsfwfilter"})
       /\ obs'.op = "resetGameCounter"
          => /\ Others(mem', {"gameCounter", "correctCounter", "notified"})
                   = Others(mem, {"gameCounter", "correctCounter", "notified"})
             /\ Others(ls', {"gamecount", "correctcount"})
                   = Others(ls, {"gamecount", "correctcount"})]_vars

\* the counters were reset after counted plays: the navigation count stays
C21_ResetKeepsNav ==
    /\ obs.op = "resetGameCounter"
    /\ obs.left = NullNum
    /\ mem.gameCounter = 0
    /\ ls.gamecount = <<48>>
    /\ StoredNavCount(ls) > 0

\* C22: for a true count of 0 the downward phase adds nothing, no guess is
\* negative, and the guesses are 0 and five values of the upward phase, each
\* at least MIN_STEP_INCREASE above the one added before it (the first above
\* 0).
C22_ZeroGoesUp ==
    (Built /\ wrap.truecount = 0)
       => /\ obs.down = <<>>
          /\ Len(obs.up) = MIN_ANSWERS - 1
          /\ Range(wrap.guesses) = {0} \cup Range(obs.up)
          /\ Len(wrap.guesses) = MIN_ANSWERS
          /\ \A v \in Range(wrap.guesses) : v >= 0
          /\ obs.up[1] >= obs.minStep
          /\ \A i \in 2..Len(obs.up) : obs.up[i] >= obs.up[i - 1] + obs.minStep

\* from 0 the first upward step is the minimum increase itself
C22_FirstStepRaised ==
    /\ Built
    /\ wrap.truecount = 0
    /\ Len(obs.up) = MIN_ANSWERS - 1
    /\ obs.up[1] = obs.minStep

\* C23: of two navigateToRandomApp calls started before either has asked
\* for the navigation, with the play count one below the limit, at most one
\* counts a play: a play is never counted while the limit is reached.
C23_OneAdvanceCounts ==
    [][mem'.gameCounter = mem.gameCounter + 1 => ~isGameLimitReached(mem)]_vars

\* C24: building the guesses of one round takes at most RestoreStride (10)
\* draws from the generator, so a round that starts at draw 10 n stays below
\* draw 10 (n + 1), where the restore of the next round starts.
C24_RoundWithinStride == Built => obs.draws <= RestoreStride

\* the tweak has replaced the lowest guess
Tweaked == Built /\ obs.answers # obs.untweaked

\* the value the tweak puts in: the first of its candidates that is not in
\* the set, looked for up to a candidate that is the lowest guess itself
TweakValue(order) ==
    IF order[1] \notin Range(obs.untweaked) THEN order[1] ELSE order[2]

\* C25 as stated: the lowest guess is replaced after two flips below 0.5
\* only (it is not the true count and below 20), the set keeping its size
C25_BothFlips ==
    Tweaked => /\ SetMin(Range(obs.untweaked)) # obs.TC
               /\ SetMin(Range(obs.untweaked)) < 20
               /\ obs.flips = <<TRUE, TRUE>>
               /\ Len(obs.answers) = Len(obs.untweaked)

\* C25: the lowest guess is replaced only if it is not the true count, is
\* below 20 and the first flip (rng.next() < 0.5) is below 0.5; the second
\* flip chooses the order of the candidates, [0, 1] or [1, 0].  The value
\* put in is 0 or 1, was not in the set, takes the place of the lowest guess
\* alone, and the set keeps its size.
C25_FirstFlipGates ==
    /\ Built => Len(obs.flips) <= 2
    /\ Tweaked
          => /\ SetMin(Range(obs.untweaked)) # obs.TC
             /\ SetMin(Range(obs.untweaked)) < 20
             /\ Len(obs.flips) = 2
             /\ obs.flips[1]
             /\ TweakValue(IF obs.flips[2] THEN <<0, 1>> ELSE <<1, 0>>)
                   \notin Range(obs.untweaked)
             /\ obs.answers
                   = Append(SetDelete(obs.untweaked,
                                      SetMin(Range(obs.untweaked))),
                            TweakValue(IF obs.flips[2] THEN <<0, 1>>
                                       ELSE <<1, 0>>))
             /\ Len(obs.answers) = Len(obs.untweaked)

\* the lowest guess was replaced although the second flip was not below 0.5
C25_SecondFlipOrders ==
    /\ Tweaked
    /\ obs.flips = <<TRUE, FALSE>>
    /\ 1 \in Range(obs.answers)
    /\ 1 \notin Range(obs.untweaked)

\* seq goes strictly down (dir = -1) or up (dir = 1) from the value `from`
Monotone(seq, from, dir) ==
    \A i \in 1..Len(seq) :
       (seq[i] - (IF i = 1 THEN from ELSE seq[i - 1])) * dir > 0

\* C26: buildGuessSet comes to its end for every true count and generator:
\* the downward loop goes strictly down, every round of the upward loop adds
\* a new, higher guess or ends the loop, so the two loops make at most
\* MIN_ANSWERS rounds (one draw each), and the fallback adds nothing above
\* CAP.
C26_LoopsBounded ==
    Built => /\ Monotone(obs.down, obs.TC, 0 - 1)
             /\ Monotone(obs.up, obs.TC, 1)
             /\ Len(obs.down) + Len(obs.up) <= MIN_ANSWERS - 1
             /\ obs.draws <= 2 + MIN_ANSWERS + 2 + (MIN_ANSWERS - 1)
             /\ \A v \in Range(obs.untweaked) : v <= CAP

\* at the cap the upward loop ends at once and the fallback adds nothing
C26_StoppedAtCap ==
    /\ Built
    /\ obs.TC = CAP
    /\ obs.up = <<>>
    /\ Len(obs.down) + 1 = Len(obs.untweaked)
    /\ Len(obs.untweaked) < MIN_ANSWERS

\* C27: the downward phase adds guesses iff the true count is at least
\* MIN_STEP_INCREASE; each guess it adds is >= 0 and below the one before
\* (the first below the true count), it adds at most maxDownGuesses, and
\* none after a guess below 50.
C27_DownwardPhase ==
    Built => /\ (obs.down # <<>>) <=> (obs.TC >= obs.minStep)
             /\ \A v \in Range(obs.down) : v >= 0
             /\ Monotone(obs.down, obs.TC, 0 - 1)
             /\ Len(obs.down) <= obs.maxDown
             /\ obs.maxDown \in {4, 5}
             /\ \A i \in 1..(Len(obs.down) - 1) : obs.down[i] >= 50

\* the downward phase has stopped below 50 before it had added
\* maxDownGuesses
C27_StoppedBelowFifty ==
    /\ Built
    /\ obs.down # <<>>
    /\ Len(obs.down) < obs.maxDown
    /\ obs.down[Len(obs.down)] < 50
    /\ Len(obs.up) > 0

\* C28: the generator's state is a 32-bit unsigned integer after every
\* draw: it stays in [0, 2^32).
C28_StateInWord ==
    Loaded => /\ mem.currentRNG[1] \in 0..(W16 - 1)
              /\ mem.currentRNG[2] \in 0..(W16 - 1)

\* how often v is in seq
Times(seq, v) == Cardinality({i \in 1..Len(seq) : seq[i] = v})

\* C29: shuffle returns its array permuted (same length, every element as
\* often as before) and takes length - 1 draws (none for an empty array or
\* one element); pick returns null for an empty array without a draw, and
\* otherwise an element of the array for exactly one draw.
C29_ShuffleAndPick ==
    [][/\ obs'.op = "shuffle"
          => /\ Len(obs'.out) = Len(obs'.array)
             /\ \A v \in Range(obs'.array) \cup Range(obs'.out) :
                   Times(obs'.out, v) = Times(obs'.array, v)
             /\ mem'.currentRNG
                   = FastForward(mem.currentRNG,
                                 IF Len(obs'.array) > 1 THEN Len(obs'.array) - 1
                                 ELSE 0)
       /\ obs'.op = "pick"
          => IF obs'.array = <<>>
             THEN obs'.val = NullNum /\ mem'.currentRNG = mem.currentRNG
             ELSE /\ obs'.val \in Range(obs'.array)
                  /\ mem'.currentRNG = FastForward(mem.currentRNG, 1)]_vars

\* an array with an element twice has come back in another order
C29_Reordered ==
    /\ obs.op = "shuffle"
    /\ Len(obs.array) = 3
    /\ obs.out # obs.array
    /\ Times(obs.out, 3) = 2

\* navigateToRandomApp hands off to the navigation in this step
HandsOff == page.pending = "none" /\ page'.pending = "assign"

VoidsPage ==
    /\ Len(navs') = Len(navs) + 1
    /\ navs'[Len(navs')].auto

\* C31: a loaded page is voided at most once: once maybeAutoSkipNSFWPage
\* has voided the page, no later run() on that page schedules another retry
\* or takes the play count down again (the play count goes down only to 0,
\* by a reset of the counters).
C31_VoidedOncePerPage ==
    [][(Settled /\ page'.pending = "none" /\ page.lastAutoSkippedAppId # 0)
          => /\ ~VoidsPage
             /\ mem'.gameCounter < mem.gameCounter
                   => (mem'.gameCounter = 0 /\ mem'.correctCounter = 0)]_vars

\* a page has been voided, its retry has started and awaits its picker
C31_RetryAwaits ==
    /\ Settled
    /\ page.lastAutoSkippedAppId = page.appid
    /\ Len(navs) = 1
    /\ navs[1].auto
    /\ navs[1].pc # "timeout"
    /\ ~ss.present

\* the call reaches the look at the page's tags: the filter is on and the
\* marker is for this page, fresh, early in its chain and not yet voided
TagsConsulted ==
    /\ mem.nsfwFilterEnabled
    /\ ss.present
    /\ ss.appid = page.appid
    /\ page.appid # page.lastAutoSkippedAppId
    /\ ~ss.old
    /\ ss.chain < 5

\* the call changes no counter and starts no navigation
SkipCountsNothing ==
    /\ mem' = mem
    /\ ls' = ls
    /\ navs' = navs
    /\ page' = page
    /\ wrap' = wrap

\* C32: a call of maybeAutoSkipNSFWPage changes no counter and starts no
\* navigation when the filter is off, when there is no marker, when the
\* marker is for another page, when it is older than 60 s, or when the
\* page's tags cannot be judged yet; tags that cannot be judged leave the
\* marker as it is, and tags that are accepted remove it
C32_SkipFrame ==
    [][/\ (\/ ~mem.nsfwFilterEnabled
           \/ ~ss.present
           \/ ss.appid # page.appid
           \/ ss.old
           \/ TagsConsulted /\ twin' = <<Null>>) => SkipCountsNothing
       /\ (\/ ~mem.nsfwFilterEnabled
           \/ ~ss.present
           \/ ss.appid # page.appid
           \/ TagsConsulted /\ twin' = <<Null>>) => ss' = ss
       /\ (TagsConsulted /\ twin' = <<"false">>)
             => (ss' = NoMarker /\ SkipCountsNothing)
       /\ (ss.present /\ ss.appid = page.appid /\ ss.old
              /\ mem.nsfwFilterEnabled
              /\ page.appid # page.lastAutoSkippedAppId) => ss' = NoMarker]_vars

\* the tags of a page under a fresh marker could not be judged, and the
\* marker is still there for the next call
C32_MarkerKept ==
    /\ TagsConsulted
    /\ twin = <<Null>>
    /\ mem.gameCounter = 1
    /\ navs = <<>>

\* C33: on a page that has run once, a further run() does not apply the
\* seed of the URL again: the seed, the limit, the mode and the correct
\* count stay, and the play count changes only when the run voids the page
C33_UrlSeedOnce ==
    [][(RunAgain /\ page.seedInitialized)
          => /\ mem'.currentSeed = mem.currentSeed
             /\ mem'.currentRNG = mem.currentRNG
             /\ mem'.maxGames = mem.maxGames
             /\ mem'.gameMode = mem.gameMode
             /\ mem'.nsfwFilterEnabled = mem.nsfwFilterEnabled
             /\ page'.seedInitialized
             /\ ~VoidsPage => (mem' = mem /\ ls' = ls)]_vars

\* a page opened with ?seed= has run, and since then the limit of the URL's
\* token was lifted and the filter was switched
C33_ChangedAfterUrlSeed ==
    /\ Truthy(page.urlSeed)
    /\ page.seedInitialized
    /\ Settled
    /\ mem.maxGames = NullNum
    /\ mem.nsfwFilterEnabled

\* C34: the guesses of a round widget are built once: the call that finds
\* the widget not ready builds them from the count it awaited, and a call
\* that resumes on a ready widget draws nothing and keeps the guesses
C34_BuiltOnce ==
    [][(ReviewCountArrives \/ ReviewCountFails)
          => /\ wrap.state = "ready"
                   => /\ mem'.currentRNG = mem.currentRNG
                      /\ wrap'.guesses = wrap.guesses
                      /\ wrap'.state = "ready"
             /\ (wrap.state # "ready" /\ wrap'.state = "ready")
                   => /\ wrap'.guesses =
                            BuildGuessSet(wrap'.truecount, mem.currentRNG).picks
                      /\ mem'.currentRNG =
                            BuildGuessSet(wrap'.truecount, mem.currentRNG).state
             /\ wrap'.state # "ready" => mem'.currentRNG = mem.currentRNG]_vars

\* one call has built the widget and another one still awaits the count
C34_BuiltWhileAwaited ==
    /\ wrap.state = "ready"
    /\ wrap.content = "buttons"
    /\ wrap.waiting > 0
    /\ Settled

\* the session a reload without ?seed= restores from the persisted record
Reloaded ==
    getRNG([mem |-> InitialMem, ls |-> ls], NoItem,
           CHOOSE s \in RandomSeeds : TRUE).mem

\* C35: while the storage takes every write, a reload without ?seed=
\* restores the seed, the limit, the mode, the play count and the correct
\* count that are in memory, whatever calls of the seed module came before
C35_ReloadRestores ==
    (Loaded /\ obs.left = NullNum)
       => /\ Reloaded.currentSeed = mem.currentSeed
          /\ Reloaded.maxGames = mem.maxGames
          /\ Reloaded.gameMode = mem.gameMode
          /\ Reloaded.gameCounter = mem.gameCounter
          /\ Reloaded.correctCounter = mem.correctCounter

\* a session with a limit and a mode set, plays counted and one answered
\* right, on a storage that has taken every write
C35_FullSession ==
    /\ Loaded
    /\ obs.left = NullNum
    /\ mem.maxGames # NullNum
    /\ mem.gameMode = "pure"
    /\ mem.gameCounter = 1
    /\ mem.correctCounter = 1
    /\ obs.op = "decrementGameCounter"

\* C36: once a page has initialised the session, the filter flag in memory
\* is the persisted one ("1" on, "0" off), whichever way the seed came:
\* from the URL, from the persisted record, or fresh
C36_FilterAsPersisted ==
    (Loaded /\ ls.nsfwfilter # NoItem)
       => (mem.nsfwFilterEnabled <=> ls.nsfwfilter = <<49>>)

\* C37: the reload that follows Apply restores the seed that was applied,
\* with the play count and the correct count at zero, whether or not the
\* URL of the page carries ?seed=
C37_AppliedSeedRestored ==
    [][(page.pending = "reload" /\ page'.pending = "none")
          => /\ mem'.currentSeed = mem.currentSeed
             /\ mem'.gameCounter = 0
             /\ mem'.correctCounter = 0]_vars

\* C38: the correct count is at most one more than the navigation count: a
\* round drawn again after a reload adds no second correct answer
C38_CorrectWithinNav ==
    Loaded => mem.correctCounter <= StoredNavCount(ls) + 1

\* C39: buildGuessSet returns at most MIN_ANSWERS (6) guesses, all
\* different; the tweak and the shuffle keep their number, and a set that
\* has reached MIN_ANSWERS guesses is returned with exactly MIN_ANSWERS
C39_AtMostSix ==
    Built => /\ Len(wrap.guesses) <= MIN_ANSWERS
             /\ Cardinality(Range(wrap.guesses)) = Len(wrap.guesses)
             /\ Len(wrap.guesses) = Len(obs.untweaked)
             /\ Len(obs.untweaked) >= MIN_ANSWERS
                   => Len(wrap.guesses) = MIN_ANSWERS

\* six guesses for the true count 7036, the lowest one replaced by the tweak
C39_SixForScenario ==
    /\ Built
    /\ obs.TC = 7036
    /\ Len(wrap.guesses) = MIN_ANSWERS
    /\ Range(obs.answers) # Range(obs.untweaked)

\* C40: the retry of a voided page is started with the mode its marker
\* records, the mode of the navigation that opened the page
C40_RetryKeepsMode ==
    [][VoidsPage => navs'[Len(navs')].mode = ss.mode]_vars
====
